---- MODULE Spec2Model ----
(***************************************************************************)
(* Model of blck6rd/domain-checker-bot: the JSON domain/account repository *)
(* (src/domain_manager.py), the WHOIS expiry checker and its batch runner  *)
(* (src/whois_checker.py) and the digest loop of the bot (src/bot.py).     *)
(*                                                                         *)
(* Strings are sequences of one-character strings, so that lower() and     *)
(* strip() are computed and not assumed.                                   *)
(***************************************************************************)
EXTENDS Integers, Sequences, FiniteSets, TLC

VARIABLES
    store,      \* content of the JSON file: ordered accounts, each with its domain list
    prev,       \* content of the file before the last repository call
    last,       \* the last repository call: operation, arguments and (ok, message)
    fileKind,   \* what the bytes of the JSON file are: "json", "text" or "bytes"
    ckIn,       \* input of a single check: domain, WHOIS response, clock, warning_days
    ckOut,      \* what check_domain_async did with ckIn
    bDomains,   \* argument of check_domains_batch
    bTasks,     \* the coroutine of each domain: position, outcome, completion rank
    bPc,        \* position of check_domains_batch
    bResult,    \* value returned by check_domains_batch
    dcPc,       \* position of daily_check
    dcDomains,  \* domains read by daily_check at line 111
    dcIdx,      \* number of domains daily_check has checked
    dcInfos,    \* DomainInfo of each checked domain
    dcReport,   \* expiring_results of daily_check, as the domains they render
    dcTexts,    \* expiring_results of daily_check, as the rendered entries
    dcUsers,    \* subscribers daily_check has still to send the digest to
    caPc,       \* position of check_all_domains
    caDomains,  \* domains read by check_all_domains at line 218
    caResults,  \* results of check_all_domains: the DomainInfo and account of each entry
    caExpiring, \* expiring_count of check_all_domains
    sePc,       \* position of show_expiring
    seDomains,  \* domains read by show_expiring at line 271
    seInfos,    \* DomainInfo of each domain show_expiring has checked
    seTexts,    \* expiring_results of show_expiring, as the rendered entries
    users,      \* content of the subscribers file: a set of chat ids
    sent,       \* every send_message and reply_text of the bot, in order
    conv,       \* per chat: the state of its conversation and its user_data
    callers     \* two concurrent calls of add_domain: position, loaded data, result

repoVars  == <<store, prev, last, fileKind>>
checkVars == <<ckIn, ckOut>>
batchVars == <<bDomains, bTasks, bPc, bResult>>
dailyVars == <<dcPc, dcDomains, dcIdx, dcInfos, dcReport, dcTexts, dcUsers>>
allVars   == <<caPc, caDomains, caResults, caExpiring>>
showVars  == <<sePc, seDomains, seInfos, seTexts>>
sendVars  == <<users, sent>>
\* the variables that the repository, the checker, the batch and the check of
\* all domains leave alone
botVars   == <<conv, callers>>
extVars   == <<showVars, sendVars, botVars>>
vars == <<store, prev, last, fileKind, ckIn, ckOut, bDomains, bTasks, bPc, bResult,
          dcPc, dcDomains, dcIdx, dcInfos, dcReport, dcTexts, dcUsers,
          caPc, caDomains, caResults, caExpiring,
          sePc, seDomains, seInfos, seTexts, users, sent, conv, callers>>

(***************************************************************************)
(* Bounds of the model                                                     *)
(***************************************************************************)
\* domains and accounts the file may hold
MaxDomains == 2
MaxAccounts == 2
\* domains of a batch, a daily check or a check of all domains that runs to its end
MaxBatch == 3
\* domains of a batch of which only the start is followed
BigBatch == 12
\* domains of a file whose digest is followed when all of them expire
DigestDomains == 48

\* Raw texts a caller passes as a domain: "a.x", "A.x ", "c.x", "x.", "ax", " "
DomainInputs ==
    { <<"a", ".", "x">>, <<"A", ".", "x", " ">>, <<"c", ".", "x">>, <<"x", ".">>,
      <<"a", "x">>, <<" ">> }

\* Raw texts of the old and of the new name of a rename
OldInputs == { <<"a", ".", "x">>, <<"A", ".", "x", " ">>, <<"c", ".", "x">> }
NewInputs == { <<"a", ".", "x">>, <<"c", ".", "x">>, <<"x", ".">>, <<"a", "x">> }

\* Raw texts a caller passes as an account: "", "x", "x ", "X"
AccountInputs == { <<>>, <<"x">>, <<"x", " ">>, <<"X">> }

(***************************************************************************)
(* Strings                                                                 *)
(***************************************************************************)
EmptyStr == <<>>

\* str.lower() on one character
LowerChar(c) ==
    CASE c = "A" -> "a"
      [] c = "C" -> "c"
      [] c = "X" -> "x"
      [] OTHER -> c

\* str.lower()
Lower(s) == [i \in 1..Len(s) |-> LowerChar(s[i])]

IsSpace(c) == c = " "

RECURSIVE LStrip(_)
LStrip(s) == IF s # <<>> /\ IsSpace(Head(s)) THEN LStrip(Tail(s)) ELSE s

RECURSIVE RStrip(_)
RStrip(s) ==
    IF s # <<>> /\ IsSpace(s[Len(s)]) THEN RStrip(SubSeq(s, 1, Len(s) - 1)) ELSE s

\* str.strip()
Strip(s) == RStrip(LStrip(s))

\* c in s, for a character c
HasChar(s, c) == \E i \in 1..Len(s) : s[i] = c

\* x in list
InList(x, list) == \E i \in 1..Len(list) : list[i] = x

\* list.index(x): the first position of x
IndexOf(x, list) == CHOOSE i \in 1..Len(list) : list[i] = x /\ \A j \in 1..(i - 1) : list[j] # x

\* [d.lower() for d in domains]
LowerAll(list) == [i \in 1..Len(list) |-> Lower(list[i])]

\* list.pop() in place of list.pop(idx): the last element goes
PopLast(list, idx) == SubSeq(list, 1, Len(list) - 1)

\* list.pop(idx)
PopAt(list, idx) == SubSeq(list, 1, idx - 1) \o SubSeq(list, idx + 1, Len(list))

(***************************************************************************)
(* The repository: DomainManager                                           *)
(***************************************************************************)
\* {"accounts": {}} written by _ensure_file_exists
EmptyStore == <<>>

\* _load_data on a file whose bytes are a JSON object ("json"), a text that is
\* no JSON ("text": json.load raises JSONDecodeError, which is caught) or no
\* UTF-8 text at all ("bytes": the read raises UnicodeDecodeError, which is not)
_load_data(kind, st) ==
    IF kind = "json" THEN [raised |-> FALSE, data |-> st]
    ELSE IF kind = "text" THEN [raised |-> FALSE, data |-> EmptyStore]
    ELSE [raised |-> TRUE, data |-> EmptyStore]

\* accounts.keys()
AccountNames(st) == [i \in 1..Len(st) |-> st[i].name]

\* account in accounts
HasAccount(st, account) == InList(account, AccountNames(st))

\* get_all_domains: the lists of the accounts, concatenated in account order
RECURSIVE get_all_domains(_)
get_all_domains(st) ==
    IF st = <<>> THEN <<>> ELSE Head(st).domains \o get_all_domains(Tail(st))

\* list(accounts.keys())[-1] in place of [0]
LastAccount(st) == st[Len(st)].name

\* list(accounts.keys())[0]
FirstAccount(st) == st[1].name

\* Python's None for an Optional[str]
None == [some |-> FALSE, val |-> EmptyStr]
Some(s) == [some |-> TRUE, val |-> s]

\* truth value of an Optional[str]: None and "" are both false
Truthy(opt) == opt.some /\ opt.val # EmptyStr

\* the first account whose list holds the domain, compared in lower case
FirstOwner(st, domain) ==
    CHOOSE i \in 1..Len(st) :
        /\ InList(domain, LowerAll(st[i].domains))
        /\ \A j \in 1..(i - 1) : ~InList(domain, LowerAll(st[j].domains))

IsStored(st, domain) == \E i \in 1..Len(st) : InList(domain, LowerAll(st[i].domains))

find_domain(st, raw) ==
    LET domain == Strip(Lower(raw)) IN
    IF IsStored(st, domain) THEN Some(st[FirstOwner(st, domain)].name) ELSE None

\* query in text
Contains(text, query) ==
    \E i \in 0..(Len(text) - Len(query)) : SubSeq(text, i + 1, i + Len(query)) = query

\* the (domain, account) pairs of a file, in the order of the file
RECURSIVE Pairs(_)
Pairs(st) ==
    IF st = <<>> THEN <<>>
    ELSE [i \in 1..Len(Head(st).domains) |->
             [domain |-> Head(st).domains[i], account |-> Head(st).name]]
         \o Pairs(Tail(st))

\* search_domains
search_domains(st, raw) ==
    LET query == Strip(Lower(raw))
        Match(p) == Contains(Lower(p.domain), query)
    IN SelectSeq(Pairs(st), Match)

\* get_stats
get_stats(st) ==
    [accounts_count |-> Len(st),
     domains_count  |-> Len(get_all_domains(st)),
     accounts       |-> [i \in 1..Len(st) |->
                            [name |-> st[i].name, count |-> Len(st[i].domains)]]]

\* the test without its second half: only the empty text is refused
BadFormatEmptyOnly(domain) == domain = EmptyStr

\* domain is empty or has no '.'
BadFormat(domain) == domain = EmptyStr \/ ~HasChar(domain, ".")

\* a (success, message) result: the kind of message and the names it carries
Result(ok, kind, domain, account) ==
    [ok |-> ok, kind |-> kind, domain |-> domain, account |-> account]

\* add_domain: the new file content and the returned result
add_domain(st, raw, account) ==
    LET domain   == Strip(Lower(raw))
        existing == find_domain(st, domain)
        target   == IF ~Truthy(account) THEN FirstAccount(st) ELSE account.val
        st2      == IF HasAccount(st, target)
                    THEN st
                    ELSE Append(st, [name |-> target, domains |-> <<>>])
        k        == IndexOf(target, AccountNames(st2))
    IN
    IF BadFormat(domain)
    THEN [store |-> st, res |-> Result(FALSE, "format", EmptyStr, EmptyStr)]
    ELSE IF Truthy(existing)
    THEN [store |-> st, res |-> Result(FALSE, "exists", domain, existing.val)]
    ELSE IF ~Truthy(account) /\ st = <<>>
    THEN [store |-> st, res |-> Result(FALSE, "noaccount", EmptyStr, EmptyStr)]
    ELSE [store |-> [st2 EXCEPT ![k].domains = Append(@, domain)],
          res   |-> Result(TRUE, "added", domain, target)]

\* remove_domain
remove_domain(st, raw) ==
    LET domain == Strip(Lower(raw)) IN
    IF IsStored(st, domain)
    THEN LET k   == FirstOwner(st, domain)
             idx == IndexOf(domain, LowerAll(st[k].domains))
         IN [store |-> [st EXCEPT ![k].domains = PopAt(@, idx)],
             res   |-> Result(TRUE, "removed", st[k].domains[idx], st[k].name)]
    ELSE [store |-> st, res |-> Result(FALSE, "notfound", domain, EmptyStr)]

\* update_domain with the test for the old name before the test for the new
update_domainOldFirst(st, rawOld, rawNew) ==
    LET old_domain == Strip(Lower(rawOld))
        new_domain == Strip(Lower(rawNew))
    IN
    IF BadFormat(new_domain)
    THEN [store |-> st, res |-> Result(FALSE, "format", EmptyStr, EmptyStr)]
    ELSE IF ~IsStored(st, old_domain)
    THEN [store |-> st, res |-> Result(FALSE, "notfound", old_domain, EmptyStr)]
    ELSE IF Truthy(find_domain(st, new_domain))
    THEN [store |-> st, res |-> Result(FALSE, "exists", new_domain, EmptyStr)]
    ELSE LET k   == FirstOwner(st, old_domain)
             idx == IndexOf(old_domain, LowerAll(st[k].domains))
         IN [store |-> [st EXCEPT ![k].domains[idx] = new_domain],
             res   |-> Result(TRUE, "renamed", new_domain, EmptyStr)]

\* update_domain
update_domain(st, rawOld, rawNew) ==
    LET old_domain == Strip(Lower(rawOld))
        new_domain == Strip(Lower(rawNew))
    IN
    IF BadFormat(new_domain)
    THEN [store |-> st, res |-> Result(FALSE, "format", EmptyStr, EmptyStr)]
    ELSE IF Truthy(find_domain(st, new_domain))
    THEN [store |-> st, res |-> Result(FALSE, "exists", new_domain, EmptyStr)]
    ELSE IF IsStored(st, old_domain)
    THEN LET k   == FirstOwner(st, old_domain)
             idx == IndexOf(old_domain, LowerAll(st[k].domains))
         IN [store |-> [st EXCEPT ![k].domains[idx] = new_domain],
             res   |-> Result(TRUE, "renamed", new_domain, EmptyStr)]
    ELSE [store |-> st, res |-> Result(FALSE, "notfound", old_domain, EmptyStr)]

\* add_account
add_account(st, raw) ==
    LET account == Strip(raw) IN
    IF HasAccount(st, account)
    THEN [store |-> st, res |-> Result(FALSE, "exists", EmptyStr, account)]
    ELSE [store |-> Append(st, [name |-> account, domains |-> <<>>]),
          res   |-> Result(TRUE, "added", EmptyStr, account)]

\* remove_account
remove_account(st, account) ==
    IF ~HasAccount(st, account)
    THEN [store |-> st, res |-> Result(FALSE, "notfound", EmptyStr, account)]
    ELSE [store |-> PopAt(st, IndexOf(account, AccountNames(st))),
          res   |-> Result(TRUE, "removed", EmptyStr, account)]

\* the account argument of add_domain: None (the default) or a text
AccountArgs == {None, Some(<<"y">>)}

NoCall == [op |-> "init", a1 |-> EmptyStr, a2 |-> EmptyStr, acct |-> None,
           file |-> "json", raised |-> FALSE,
           res |-> Result(TRUE, "init", EmptyStr, EmptyStr)]

\* what is left of a call that an exception ended
Raised == Result(FALSE, "raised", EmptyStr, EmptyStr)

\* the model keeps the file within MaxAccounts accounts and MaxDomains domains
WithinBounds(st) == Len(st) <= MaxAccounts /\ Len(get_all_domains(st)) <= MaxDomains

RepoInit == store = EmptyStore /\ prev = EmptyStore /\ last = NoCall /\ fileKind = "json"

\* the data a method works on: what _load_data returns at its first line
Loaded == _load_data(fileKind, store)

\* one call of a mutating method: it ends with the exception of the load, or
\* it returns r.res and, when that is a success, has saved r.store as JSON
Apply(op, a1, a2, acct, r) ==
    /\ prev' = store
    /\ IF Loaded.raised
       THEN /\ UNCHANGED <<store, fileKind>>
            /\ last' = [op |-> op, a1 |-> a1, a2 |-> a2, acct |-> acct,
                        file |-> fileKind, raised |-> TRUE, res |-> Raised]
       ELSE /\ WithinBounds(r.store)
            /\ store' = IF r.res.ok THEN r.store ELSE store
            /\ fileKind' = IF r.res.ok THEN "json" ELSE fileKind
            /\ last' = [op |-> op, a1 |-> a1, a2 |-> a2, acct |-> acct,
                        file |-> fileKind, raised |-> FALSE, res |-> r.res]

\* a call from outside the bot
Call(op, a1, a2, acct, r) ==
    /\ Apply(op, a1, a2, acct, r)
    /\ UNCHANGED <<extVars, checkVars, batchVars, dailyVars, allVars>>

\* one call of a reading method: it ends with the exception of the load or
\* returns the value computed on the loaded data
Query(op, a1, value) ==
    /\ prev' = store
    /\ last' = [op |-> op, a1 |-> a1, a2 |-> EmptyStr, acct |-> None, file |-> fileKind,
                raised |-> Loaded.raised,
                res |-> IF Loaded.raised THEN Raised ELSE value]
    /\ UNCHANGED <<store, fileKind, extVars, checkVars, batchVars, dailyVars, allVars>>

GetAllDomains == Query("list", EmptyStr, get_all_domains(Loaded.data))

FindDomain == \E raw \in OldInputs : Query("find", raw, find_domain(Loaded.data, raw))

SearchDomains == \E raw \in OldInputs : Query("search", raw, search_domains(Loaded.data, raw))

GetStats == Query("stats", EmptyStr, get_stats(Loaded.data))

AddDomain ==
    \E raw \in DomainInputs, account \in AccountArgs :
        Call("add", raw, EmptyStr, account, add_domain(Loaded.data, raw, account))

RemoveDomain ==
    \E raw \in DomainInputs :
        Call("remove", raw, EmptyStr, None, remove_domain(Loaded.data, raw))

UpdateDomain ==
    \E rawOld \in OldInputs, rawNew \in NewInputs :
        Call("rename", rawOld, rawNew, None, update_domain(Loaded.data, rawOld, rawNew))

AddAccount ==
    \E raw \in AccountInputs \ {<<"x">>} :
        Call("add_account", raw, EmptyStr, None, add_account(Loaded.data, raw))

RemoveAccount ==
    \E raw \in AccountInputs \ {<<"x", " ">>} :
        Call("remove_account", raw, EmptyStr, None, remove_account(Loaded.data, raw))

(***************************************************************************)
(* The expiry checker: check_domain_async                                  *)
(***************************************************************************)
\* Optional[int] and Optional[datetime] (a date is its day number)
NoneInt == [some |-> FALSE, val |-> 0]
SomeInt(n) == [some |-> TRUE, val |-> n]

\* DomainInfo.error: None, or a text of which the model keeps the kind and the length
NoError == [some |-> FALSE, kind |-> "", len |-> 0]
ErrorText(kind, len) == [some |-> TRUE, kind |-> kind, len |-> len]

\* the dataclass DomainInfo
DomainInfo(domain, expiry_date, days_left, registrar, is_expiring_soon, error) ==
    [domain |-> domain, expiry_date |-> expiry_date, days_left |-> days_left,
     registrar |-> registrar, is_expiring_soon |-> is_expiring_soon, error |-> error]

\* The value of the "paid" field of the WHOIS answer.
\*   absent : no such key, null, "" or another false value
\*   str    : a text; fmt tells which strptime format it matches, day the date it
\*            writes, len its length
\*   list   : a non-empty list of candidate dates
PaidAbsent == [type |-> "absent", fmt |-> "", day |-> 0, len |-> 0]
PaidStr(fmt, day, len) == [type |-> "str", fmt |-> fmt, day |-> day, len |-> len]
PaidList(first) == [type |-> "list", fmt |-> first.fmt, day |-> first.day, len |-> first.len]

\* What the WHOIS API does with one request.
\*   timeout : no answer within ClientTimeout(total=15)
\*   error   : session.get or response.json raises another exception, whose
\*             text has msgLen characters
\*   http    : an answer with a status; json is "dict" when the body is a JSON
\*             object, "other" when it is another JSON value
Response(kind, status, msgLen, json, paid, registrar) ==
    [kind |-> kind, status |-> status, msgLen |-> msgLen, json |-> json,
     paid |-> paid, registrar |-> registrar]
RespTimeout == Response("timeout", 0, 0, "", PaidAbsent, None)
RespError(msgLen) == Response("error", 0, msgLen, "", PaidAbsent, None)
RespStatus(status) == Response("http", status, 0, "", PaidAbsent, None)
RespOther == Response("http", 200, 0, "other", PaidAbsent, None)
RespDict(paid, registrar) == Response("http", 200, 0, "dict", paid, registrar)

\* an exception leaving a block, or none
NoExc == [exc |-> "none", msgLen |-> 0]
Exc(kind, msgLen) == [exc |-> kind, msgLen |-> msgLen]

\* len(str(n)) for a status
Digits(n) == IF n < 10 THEN 1 ELSE IF n < 100 THEN 2 ELSE 3

\* str(e)[:50]
Truncate(len) == IF len > 50 THEN 50 ELSE len

\* datetime.strptime(paid_date, format): the date, ValueError or TypeError
strptime(paid, format) ==
    IF paid.type # "str" THEN [exc |-> "TypeError", day |-> 0]
    ELSE IF paid.fmt = format THEN [exc |-> "none", day |-> paid.day]
    ELSE [exc |-> "ValueError", day |-> 0]

\* (expiry_date - datetime.now()).days: whole days, rounded down; the expiry
\* date is a midnight, now is a day and whether any time of it has passed
DaysLeft(expiry_day, now) == expiry_day - now.day - (IF now.midnight THEN 0 ELSE 1)

\* the body of the try block, lines 30-80: a DomainInfo or an exception
TryBody(domain, warning_days, resp, now) ==
    LET first  == strptime(resp.paid, "dmy")
        second == strptime(resp.paid, "ymd")
        parsed == IF first.exc = "none" THEN first ELSE second
        days_left == DaysLeft(parsed.day, now)
    IN
    IF resp.kind = "timeout" THEN [exc |-> Exc("TimeoutError", 0), info |-> <<>>]
    ELSE IF resp.kind = "error" THEN [exc |-> Exc("Exception", resp.msgLen), info |-> <<>>]
    ELSE IF resp.status # 200
    THEN [exc |-> NoExc,
          info |-> DomainInfo(domain, NoneInt, NoneInt, None, FALSE,
                              ErrorText("http", 5 + Digits(resp.status)))]
    ELSE IF resp.json # "dict"
    THEN [exc |-> Exc("Exception", 36), info |-> <<>>]
    ELSE IF resp.paid.type = "absent"
    THEN [exc |-> NoExc,
          info |-> DomainInfo(domain, NoneInt, NoneInt, resp.registrar, FALSE,
                              ErrorText("nodate", 15))]
    ELSE IF first.exc = "TypeError"
    THEN [exc |-> Exc("Exception", 43), info |-> <<>>]
    ELSE IF first.exc = "ValueError" /\ second.exc = "ValueError"
    THEN [exc |-> NoExc,
          info |-> DomainInfo(domain, NoneInt, NoneInt, resp.registrar, FALSE,
                              ErrorText("format", 13 + resp.paid.len))]
    ELSE [exc |-> NoExc,
          info |-> DomainInfo(domain, SomeInt(parsed.day), SomeInt(days_left),
                              resp.registrar, days_left < warning_days, NoError)]

\* no handler for the other exceptions: the exception leaves the function
OnExceptionRaise(domain, e) == [raised |-> TRUE, info |-> <<>>]

\* a handler that returns a DomainInfo without the error text
OnExceptionSilent(domain, e) ==
    [raised |-> FALSE, info |-> DomainInfo(domain, NoneInt, NoneInt, None, FALSE, NoError)]

\* a handler that reports the failed lookup as expiring soon
OnExceptionExpiring(domain, e) ==
    [raised |-> FALSE,
     info   |-> DomainInfo(domain, NoneInt, NoneInt, None, TRUE,
                           ErrorText("exception", Truncate(e.msgLen)))]

\* the handler of every other exception, lines 91-99
OnException(domain, e) ==
    [raised |-> FALSE,
     info   |-> DomainInfo(domain, NoneInt, NoneInt, None, FALSE,
                           ErrorText("exception", Truncate(e.msgLen)))]

\* check_domain_async: the DomainInfo returned, or an exception raised
check_domain_async(domain, warning_days, resp, now) ==
    LET body == TryBody(domain, warning_days, resp, now) IN
    IF body.exc.exc = "none" THEN [raised |-> FALSE, info |-> body.info]
    ELSE IF body.exc.exc = "TimeoutError"
    THEN [raised |-> FALSE,
          info   |-> DomainInfo(domain, NoneInt, NoneInt, None, FALSE,
                                ErrorText("timeout", 7))]
    ELSE OnException(domain, body.exc)

\* check_domain, the synchronous wrapper: the result of check_domain_async
check_domain(domain, warning_days, resp, now) ==
    check_domain_async(domain, warning_days, resp, now)

(***************************************************************************)
(* The rendering of a DomainInfo: format_domain_info                       *)
(***************************************************************************)
\* len(str(n)) for the number of days: the digits and the sign
StrLen(n) == IF n < 0 THEN 1 + Digits(0 - n) ELSE Digits(n)

\* truth value of DomainInfo.error: None and "" are both false
ErrorSet(info) == info.error.some /\ info.error.len > 0

\* a rendered entry: its emoji, by colour or sign, and the length of its text
Rendered(emoji, len) == [emoji |-> emoji, len |-> len]

\* the tiers without the first test: only days_left decides
StatusByDaysOnly(info) ==
    IF info.days_left.val <= 60
    THEN Rendered("yellow", 9 + StrLen(info.days_left.val) + 3)
    ELSE Rendered("green", 9 + StrLen(info.days_left.val) + 3)

\* lines 140-148: the emoji and the status text
StatusOf(info) ==
    IF info.is_expiring_soon
    THEN Rendered("red", 15 + StrLen(info.days_left.val) + 4)
    ELSE IF info.days_left.val <= 60
    THEN Rendered("yellow", 9 + StrLen(info.days_left.val) + 3)
    ELSE Rendered("green", 9 + StrLen(info.days_left.val) + 3)

\* format_domain_info
format_domain_info(info) ==
    IF ErrorSet(info)
    THEN Rendered("cross", 2 + Len(info.domain) + 12 + info.error.len)
    ELSE IF ~info.expiry_date.some
    THEN Rendered("warning", 3 + Len(info.domain) + 22)
    ELSE LET status == StatusOf(info) IN
         Rendered(status.emoji,
                  2 + Len(info.domain) + 1 + 24 + 11 + status.len
                  + (IF Truthy(info.registrar) THEN 17 + Len(info.registrar.val) ELSE 0))

(***************************************************************************)
(* Inputs of the checker                                                   *)
(***************************************************************************)
\* EXPIRY_WARNING_DAYS, the default of warning_days
EXPIRY_WARNING_DAYS == 31

\* datetime.now(): today is day 0, at midnight or later in the day
Clocks == {[day |-> 0, midnight |-> m] : m \in BOOLEAN}

\* expiry dates, as days from today
ExpiryDays == {0 - 5, 30, 31, 32, 45, 60, 61, 62, 90}

\* lengths of the texts the WHOIS source and the exceptions carry
TextLens == {0, 7, 60}

Registrars == {None, Some(<<"R">>)}

PaidValues ==
    {PaidAbsent}
    \cup {PaidStr(f, d, 10) : f \in {"dmy", "ymd"}, d \in ExpiryDays}
    \cup {PaidStr("other", 0, n) : n \in TextLens \ {0}}
    \cup {PaidList(PaidStr("dmy", d, 10)) : d \in {30, 90}}

Responses ==
    {RespTimeout, RespOther}
    \cup {RespError(n) : n \in TextLens}
    \cup {RespStatus(c) : c \in {404, 500}}
    \cup {RespDict(p, r) : p \in PaidValues, r \in Registrars}

\* one answer of each kind, for the runs that check several domains
RunnerResponses ==
    { RespTimeout, RespError(7), RespStatus(500),
      RespDict(PaidAbsent, Some(<<"R">>)),
      RespDict(PaidStr("other", 0, 7), None),
      RespDict(PaidStr("dmy", 30, 10), None),
      RespDict(PaidStr("ymd", 90, 10), Some(<<"R">>)) }

Noon == [day |-> 0, midnight |-> FALSE]

(***************************************************************************)
(* One call of check_domain_async, and the rendering of what it returns    *)
(***************************************************************************)
NoText == Rendered("", 0)

NoCheck == [pc |-> "off", raised |-> FALSE, info |-> <<>>, text |-> NoText]

CheckInit ==
    /\ ckIn \in [domain : {<<"a", ".", "x">>}, resp : Responses, now : Clocks,
                  warning_days : {EXPIRY_WARNING_DAYS, 61}]
    /\ ckOut = [pc |-> "called", raised |-> FALSE, info |-> <<>>, text |-> NoText]

CheckDomain ==
    /\ ckOut.pc = "called"
    /\ LET r == check_domain_async(ckIn.domain, ckIn.warning_days, ckIn.resp, ckIn.now)
       IN ckOut' = [pc |-> "returned", raised |-> r.raised, info |-> r.info,
                    text |-> NoText]
    /\ UNCHANGED <<extVars, ckIn, repoVars, batchVars, dailyVars, allVars>>

\* the caller renders the DomainInfo it got
FormatInfo ==
    /\ ckOut.pc = "returned"
    /\ ~ckOut.raised
    /\ ckOut' = [ckOut EXCEPT !.pc = "formatted", !.text = format_domain_info(ckOut.info)]
    /\ UNCHANGED <<extVars, ckIn, repoVars, batchVars, dailyVars, allVars>>

(***************************************************************************)
(* The batch runner: check_domains_batch                                   *)
(***************************************************************************)
\* the k-th domain of a run: "d.x", "dd.x", "ddd.x", ...
Dom(k) == [j \in 1..k |-> "d"] \o <<".", "x">>

DomList(n) == [k \in 1..n |-> Dom(k)]

\* a coroutine check_domain_async(d, warning_days, session) that has not run yet
NewTask == [pc |-> "new", raised |-> FALSE, info |-> <<>>, seq |-> 0]

InFlight == {i \in 1..Len(bTasks) : bTasks[i].pc = "get"}
Finished == {i \in 1..Len(bTasks) : bTasks[i].pc = "done"}

\* the results in the order in which the tasks finished
GatherAsCompleted(tasks) ==
    [k \in 1..Len(tasks) |-> tasks[CHOOSE i \in 1..Len(tasks) : tasks[i].seq = k].info]

\* asyncio.gather(*tasks): the results of the tasks, in the order of the tasks
GatherResults(tasks) == [i \in 1..Len(tasks) |-> tasks[i].info]

BatchOff == bDomains = <<>> /\ bTasks = <<>> /\ bPc = "off" /\ bResult = <<>>

BatchInit(maxLen) ==
    /\ bDomains \in {DomList(n) : n \in 0..maxLen}
    /\ bTasks = <<>>
    /\ bPc = "called"
    /\ bResult = <<>>

\* lines 109-111 up to the await: the session is opened and one coroutine per
\* domain is handed to gather
BatchCall ==
    /\ bPc = "called"
    /\ bTasks' = [i \in 1..Len(bDomains) |-> NewTask]
    /\ bPc' = "gather"
    /\ UNCHANGED <<extVars, bDomains, bResult, repoVars, checkVars, dailyVars, allVars>>

\* the event loop runs the first step of the next coroutine, up to the await of
\* session.get; the loop takes the coroutines in the order gather scheduled them
TaskStart ==
    /\ bPc = "gather"
    /\ \E i \in 1..Len(bTasks) :
        /\ bTasks[i].pc = "new"
        /\ \A j \in 1..(i - 1) : bTasks[j].pc # "new"
        /\ bTasks' = [bTasks EXCEPT ![i].pc = "get"]
    /\ UNCHANGED <<extVars, bDomains, bPc, bResult, repoVars, checkVars, dailyVars, allVars>>

\* the request of coroutine i ends with this answer, failure or timeout, and
\* the coroutine runs to its return
TaskEnds(i, resp) ==
    /\ bPc \in {"gather", "raised"}
    /\ i \in InFlight
    /\ LET r == check_domain_async(bDomains[i], EXPIRY_WARNING_DAYS, resp, Noon) IN
       bTasks' = [bTasks EXCEPT ![i] = [pc |-> "done", raised |-> r.raised,
                                        info |-> r.info,
                                        seq |-> Cardinality(Finished) + 1]]
    /\ UNCHANGED <<extVars, bDomains, bPc, bResult, repoVars, checkVars, dailyVars, allVars>>

\* the request of one coroutine is answered, fails or times out
TaskFinish == \E i \in InFlight, resp \in RunnerResponses : TaskEnds(i, resp)

\* the source answers the request of one coroutine, or the request fails
TaskAnswered == \E i \in InFlight, resp \in RunnerResponses \ {RespTimeout} : TaskEnds(i, resp)

\* a request without a timeout: nothing ends it but an answer
NoTimeout(i) == FALSE /\ UNCHANGED vars

\* line 30, ClientTimeout(total=15): the request of coroutine i has had no
\* answer for 15 seconds and ends with asyncio.TimeoutError
TimedOut(i) == TaskEnds(i, RespTimeout)

\* gather ends: with the first exception a coroutine raised, or with the list
\* of results once every coroutine has returned
GatherReturn ==
    /\ bPc = "gather"
    /\ IF \E i \in Finished : bTasks[i].raised
       THEN bPc' = "raised" /\ bResult' = <<>>
       ELSE /\ \A i \in 1..Len(bTasks) : bTasks[i].pc = "done"
            /\ bPc' = "returned"
            /\ bResult' = GatherResults(bTasks)
    /\ UNCHANGED <<extVars, bDomains, bTasks, repoVars, checkVars, dailyVars, allVars>>

(***************************************************************************)
(* What the bot sends                                                      *)
(***************************************************************************)
\* the chats that talk to the bot; the first one is the chat of the update
\* an interactive handler answers
Chats == {1, 2}
Requester == 1

\* result += "\n   📧 {account}" when the domain has an owner with a name
WithAccount(text, account) ==
    IF Truthy(account) THEN Rendered(text.emoji, text.len + 6 + Len(account.val)) ELSE text

\* one entry of expiring_results or results: the domain it renders and its text
Entry(info, account) ==
    [domain |-> info.domain, text |-> WithAccount(format_domain_info(info), account)]

\* len("\n\n".join(results))
RECURSIVE JoinLen(_)
JoinLen(entries) ==
    IF entries = <<>> THEN 0
    ELSE IF Len(entries) = 1 THEN entries[1].text.len
    ELSE entries[1].text.len + 2 + JoinLen(Tail(entries))

\* one send_message or reply_text: the chat, the kind of text, the threshold
\* the text names (0 when it names none), the entries it carries, its length
\* and whether the transport accepted it
Message(chat, kind, threshold, entries, len, ok) ==
    [chat |-> chat, kind |-> kind, threshold |-> threshold, entries |-> entries,
     len |-> len, ok |-> ok]

\* a digest that carries the first entry only
DailyDigestFirstOnly(chat, entries, ok) ==
    Message(chat, "digest", EXPIRY_WARNING_DAYS, <<entries[1]>>,
            31 + 24 + Digits(EXPIRY_WARNING_DAYS) + 8 + entries[1].text.len, ok)

\* the digest of daily_check, lines 132-134
DailyDigest(chat, entries, ok) ==
    Message(chat, "digest", EXPIRY_WARNING_DAYS, entries,
            31 + 24 + Digits(EXPIRY_WARNING_DAYS) + 8 + JoinLen(entries), ok)

\* the reply of show_expiring with the expiring domains, lines 295-297
ShowDigest(chat, entries, ok) ==
    Message(chat, "digest", EXPIRY_WARNING_DAYS, entries,
            24 + Digits(EXPIRY_WARNING_DAYS) + 8 + JoinLen(entries), ok)

\* the reply of show_expiring when it has no entry, lines 290-293
NoneExpiring(chat, ok) ==
    Message(chat, "none", EXPIRY_WARNING_DAYS, <<>>, 44 + Digits(EXPIRY_WARNING_DAYS), ok)

\* "Список доменов пуст." and "⏳ Ищу истекающие домены..."
ListEmpty(chat, ok) == Message(chat, "empty", 0, <<>>, 20, ok)
Searching(chat, ok) == Message(chat, "progress", 0, <<>>, 26, ok)

\* the length above which check_all_domains takes a text to be too long for
\* one message
SafeSize == 4000

\* load_users: the set in the file
load_users == users

\* the answers of the WHOIS source a run draws from: any of them for a short
\* list; for a long list every domain expires in 30 days; an expiring date or
\* a timeout when the run is one of the events of the bot
Answers(domains) ==
    IF Len(domains) > MaxBatch
    THEN {RespDict(PaidStr("dmy", 30, 10), None)}
    ELSE IF conv # <<>>
    THEN {RespDict(PaidStr("dmy", 30, 10), None), RespTimeout}
    ELSE RunnerResponses

SendOff == users = {} /\ sent = <<>> /\ conv = <<>> /\ callers = <<>>

(***************************************************************************)
(* The daily digest: daily_check                                           *)
(***************************************************************************)
DailyOff ==
    /\ dcPc = "off" /\ dcDomains = <<>> /\ dcIdx = 0 /\ dcInfos = <<>> /\ dcReport = <<>>
    /\ dcTexts = <<>> /\ dcUsers = {}

DailyInit ==
    /\ dcPc = "called" /\ dcDomains = <<>> /\ dcIdx = 0 /\ dcInfos = <<>> /\ dcReport = <<>>
    /\ dcTexts = <<>> /\ dcUsers = {}

\* a file with n domains: all but the last under "x", the last under "y"
StoreOf(n) ==
    IF n = 0 THEN <<>>
    ELSE IF n = 1 THEN <<[name |-> <<"x">>, domains |-> DomList(1)]>>
    ELSE <<[name |-> <<"x">>, domains |-> DomList(n - 1)],
           [name |-> <<"y">>, domains |-> <<Dom(n)>>]>>

\* lines 111-114: the domains are read; nothing is checked when there are none
DailyStart ==
    /\ dcPc = "called"
    /\ dcDomains' = get_all_domains(store)
    /\ dcPc' = IF get_all_domains(store) = <<>> THEN "returned" ELSE "loop"
    /\ UNCHANGED <<extVars, dcIdx, dcInfos, dcReport, dcTexts, dcUsers, repoVars, checkVars,
                   batchVars, allVars>>

\* lines 118-125: one turn of the loop
DailyCheckOne ==
    /\ dcPc = "loop"
    /\ dcIdx < Len(dcDomains)
    /\ \E resp \in Answers(dcDomains) :
        LET domain == dcDomains[dcIdx + 1]
            r == check_domain(domain, EXPIRY_WARNING_DAYS, resp, Noon)
        IN
        IF r.raised
        THEN dcPc' = "raised" /\ UNCHANGED <<dcIdx, dcInfos, dcReport, dcTexts>>
        ELSE /\ dcIdx' = dcIdx + 1
             /\ dcInfos' = Append(dcInfos, r.info)
             /\ dcReport' = IF r.info.is_expiring_soon
                             THEN Append(dcReport, domain) ELSE dcReport
             /\ dcTexts' = IF r.info.is_expiring_soon
                            THEN Append(dcTexts, Entry(r.info, find_domain(store, domain)))
                            ELSE dcTexts
             /\ dcPc' = dcPc
    /\ UNCHANGED <<extVars, dcDomains, dcUsers, repoVars, checkVars, batchVars, allVars>>

\* lines 127-137: the loop is over; without an expiring domain daily_check
\* returns, otherwise the message is built and the subscribers are read
DailyCompose ==
    /\ dcPc = "loop"
    /\ dcIdx = Len(dcDomains)
    /\ dcPc' = IF dcReport = <<>> THEN "returned" ELSE "send"
    /\ dcUsers' = IF dcReport = <<>> THEN {} ELSE load_users
    /\ UNCHANGED <<extVars, dcDomains, dcIdx, dcInfos, dcReport, dcTexts, repoVars, checkVars,
                   batchVars, allVars>>

\* a loop over the subscribers that ends at the first send that fails
DailySendUntilFailure ==
    /\ dcPc = "send"
    /\ \E chat_id \in dcUsers, ok \in BOOLEAN :
        /\ sent' = Append(sent, DailyDigest(chat_id, dcTexts, ok))
        /\ dcUsers' = IF ok THEN dcUsers \ {chat_id} ELSE {}
    /\ UNCHANGED <<dcPc, dcDomains, dcIdx, dcInfos, dcReport, dcTexts, users, showVars, botVars,
                   repoVars, checkVars, batchVars, allVars>>

\* lines 138-143: one turn of the loop over the subscribers, in the order the
\* set yields them; a send that fails is logged and the loop goes on
DailySend ==
    /\ dcPc = "send"
    /\ \E chat_id \in dcUsers, ok \in BOOLEAN :
        /\ sent' = Append(sent, DailyDigest(chat_id, dcTexts, ok))
        /\ dcUsers' = dcUsers \ {chat_id}
    /\ UNCHANGED <<dcPc, dcDomains, dcIdx, dcInfos, dcReport, dcTexts, users, showVars, botVars,
                   repoVars, checkVars, batchVars, allVars>>

\* the loop over the subscribers is over
DailyDone ==
    /\ dcPc = "send"
    /\ dcUsers = {}
    /\ dcPc' = "returned"
    /\ UNCHANGED <<extVars, dcDomains, dcIdx, dcInfos, dcReport, dcTexts, dcUsers, repoVars,
                   checkVars, batchVars, allVars>>

(***************************************************************************)
(* The interactive list of expiring domains: show_expiring                 *)
(***************************************************************************)
ShowOff == sePc = "off" /\ seDomains = <<>> /\ seInfos = <<>> /\ seTexts = <<>>

ShowInit == sePc = "called" /\ seDomains = <<>> /\ seInfos = <<>> /\ seTexts = <<>>

\* a reply_text of show_expiring: the handler goes on to pc when the transport
\* accepts the text and ends with the exception when it does not
Reply(msg, pc) ==
    /\ sent' = Append(sent, msg)
    /\ sePc' = IF msg.ok THEN pc ELSE "raised"

\* lines 271-277: the domains are read; an empty list is answered at once
ShowStart ==
    /\ sePc = "called"
    /\ seDomains' = get_all_domains(store)
    /\ \E ok \in BOOLEAN :
        IF get_all_domains(store) = <<>>
        THEN Reply(ListEmpty(Requester, ok), "returned")
        ELSE Reply(Searching(Requester, ok), "loop")
    /\ UNCHANGED <<seInfos, seTexts, users, botVars, repoVars, checkVars, batchVars, dailyVars,
                   allVars>>

\* lines 280-287: one turn of the loop
ShowCheckOne ==
    /\ sePc = "loop"
    /\ Len(seInfos) < Len(seDomains)
    /\ \E resp \in Answers(seDomains) :
        LET domain == seDomains[Len(seInfos) + 1]
            r == check_domain(domain, EXPIRY_WARNING_DAYS, resp, Noon)
        IN
        IF r.raised
        THEN sePc' = "raised" /\ UNCHANGED <<seInfos, seTexts>>
        ELSE /\ seInfos' = Append(seInfos, r.info)
             /\ seTexts' = IF r.info.is_expiring_soon
                            THEN Append(seTexts, Entry(r.info, find_domain(store, domain)))
                            ELSE seTexts
             /\ sePc' = sePc
    /\ UNCHANGED <<seDomains, sendVars, botVars, repoVars, checkVars, batchVars, dailyVars,
                   allVars>>

\* lines 289-297: the loop is over and the one reply is sent
ShowReply ==
    /\ sePc = "loop"
    /\ Len(seInfos) = Len(seDomains)
    /\ \E ok \in BOOLEAN :
        IF seTexts = <<>>
        THEN Reply(NoneExpiring(Requester, ok), "returned")
        ELSE Reply(ShowDigest(Requester, seTexts, ok), "returned")
    /\ UNCHANGED <<seDomains, seInfos, seTexts, users, botVars, repoVars, checkVars, batchVars,
                   dailyVars, allVars>>

(***************************************************************************)
(* The events of the bot: commands, texts, buttons and the daily job.      *)
(* The handlers are followed in what they do to the subscribers file, to   *)
(* the conversation of the chat and to the domains file; the replies of    *)
(* the interactive runs are followed in the runs above.                    *)
(***************************************************************************)
\* the texts of the reply keyboard that handle_message tells apart
MenuTexts ==
    { <<"BTN_CHECK_ALL">>, <<"BTN_EXPIRING">>, <<"BTN_LIST">>, <<"BTN_CHECK_ONE">>,
      <<"BTN_FIND">>, <<"BTN_ADD">>, <<"BTN_REMOVE">>, <<"BTN_ACCOUNTS">>, <<"BTN_HELP">> }
BTN_CANCEL == <<"BTN_CANCEL">>

\* the texts a chat sends: the buttons, "c.x" and "ax"
Texts == MenuTexts \cup {BTN_CANCEL, <<"c", ".", "x">>, <<"a", "x">>}

\* the callback data of the inline buttons a chat clicks
ButtonData ==
    { [action |-> "acc_", arg |-> <<"x">>], [action |-> "remacc_", arg |-> <<"x">>],
      [action |-> "del_", arg |-> Dom(1)], [action |-> "del_", arg |-> <<"c", ".", "x">>],
      [action |-> "edit_", arg |-> Dom(1)] }

\* a reply of a handler whose text is not followed: the chat it goes to and
\* which of the replies of the handler it is
Notice(chat, kind) == [chat |-> chat, kind |-> kind]

\* a subscribers file with this chat only: the save without the load
add_userAlone(us, chat_id) == {chat_id}

\* add_user: the subscribers file after load_users, users.add and save_users
add_user(us, chat_id) == us \cup {chat_id}

\* ConversationHandler.END, and a chat with no conversation and no user_data
END == "END"
NoConversation == [state |-> END, edit_old_domain |-> EmptyStr]

\* lines 501-504, 529-532 and 562-565: the first name that starts with the
\* prefix or whose first n characters are the prefix
ByPrefix(list, prefix, n) ==
    LET Cut(t) == SubSeq(t, 1, IF Len(t) < n THEN Len(t) ELSE n)
        hits == {i \in 1..Len(list) :
                    \/ Len(prefix) <= Len(list[i]) /\ SubSeq(list[i], 1, Len(prefix)) = prefix
                    \/ Cut(list[i]) = prefix}
    IN IF hits = {} THEN None
       ELSE Some(list[CHOOSE i \in hits : \A j \in hits : i <= j])

\* the domains file after a call of the repository by a handler
Saved(r) == IF r.res.ok THEN r.store ELSE store

\* the command /start of a chat; the CommandHandler registered before the
\* conversation takes it in every state of the conversation
start(c) ==
    /\ users' = add_user(load_users, c)
    /\ sent' = <<Notice(c, "welcome")>>
    /\ UNCHANGED <<botVars, showVars, repoVars, checkVars, batchVars, dailyVars, allVars>>

\* a text of a chat that has no conversation: handle_message
handle_message(c, text) ==
    /\ conv[c].state = END
    /\ users' = add_user(load_users, c)
    /\ conv' = [conv EXCEPT ![c].state =
                   CASE text = <<"BTN_CHECK_ONE">> -> "WAITING_DOMAIN_CHECK"
                     [] text = <<"BTN_FIND">> -> "WAITING_DOMAIN_FIND"
                     [] text = <<"BTN_ADD">> -> "WAITING_DOMAIN_ADD"
                     [] OTHER -> END]
    /\ sent' = IF text \in {<<"BTN_CHECK_ONE">>, <<"BTN_FIND">>, <<"BTN_ADD">>}
               THEN <<Notice(c, "ask")>>
               ELSE IF text = BTN_CANCEL THEN <<Notice(c, "cancelled")>>
               ELSE IF text \in MenuTexts THEN <<Notice(c, "menu")>>
               ELSE <<>>
    /\ UNCHANGED <<callers, showVars, repoVars, checkVars, batchVars, dailyVars, allVars>>

\* a text of a chat that was asked for the domain to add
handle_domain_add(c, text) ==
    /\ conv[c].state = "WAITING_DOMAIN_ADD"
    /\ conv' = [conv EXCEPT ![c].state = END]
    /\ IF text = BTN_CANCEL
       THEN sent' = <<Notice(c, "cancelled")>> /\ UNCHANGED store
       ELSE LET r == add_domain(Loaded.data, Lower(Strip(text)), None) IN
            /\ store' = Saved(r)
            /\ sent' = <<Notice(c, IF r.res.ok THEN "added" ELSE "refused")>>
    /\ UNCHANGED <<users, callers, prev, last, fileKind, showVars, checkVars, batchVars,
                   dailyVars, allVars>>

\* a check of one domain that also files the domain it checked
handle_domain_checkAdding(c, text) ==
    /\ conv[c].state = "WAITING_DOMAIN_CHECK"
    /\ conv' = [conv EXCEPT ![c].state = END]
    /\ sent' = IF text = BTN_CANCEL THEN <<Notice(c, "cancelled")>>
               ELSE <<Notice(c, "progress"), Notice(c, "checked")>>
    /\ store' = IF text = BTN_CANCEL THEN store
                ELSE Saved(add_domain(Loaded.data, Lower(Strip(text)), None))
    /\ UNCHANGED <<users, callers, prev, last, fileKind, showVars, checkVars, batchVars,
                   dailyVars, allVars>>

\* a text of a chat that was asked for the domain to check
handle_domain_check(c, text) ==
    /\ conv[c].state = "WAITING_DOMAIN_CHECK"
    /\ conv' = [conv EXCEPT ![c].state = END]
    /\ sent' = IF text = BTN_CANCEL THEN <<Notice(c, "cancelled")>>
               ELSE <<Notice(c, "progress"), Notice(c, "checked")>>
    /\ UNCHANGED <<users, callers, showVars, repoVars, checkVars, batchVars, dailyVars,
                   allVars>>

\* a search that asks again when it found nothing
handle_domain_findAgain(c, text) ==
    /\ conv[c].state = "WAITING_DOMAIN_FIND"
    /\ LET domain == Lower(Strip(text))
           missing == /\ text # BTN_CANCEL
                      /\ ~Truthy(find_domain(Loaded.data, domain))
                      /\ search_domains(Loaded.data, domain) = <<>>
       IN /\ conv' = IF missing THEN conv ELSE [conv EXCEPT ![c].state = END]
          /\ sent' = IF text = BTN_CANCEL THEN <<Notice(c, "cancelled")>>
                     ELSE IF Truthy(find_domain(Loaded.data, domain)) THEN <<Notice(c, "found")>>
                     ELSE IF ~missing THEN <<Notice(c, "similar")>>
                     ELSE <<Notice(c, "missing")>>
    /\ UNCHANGED <<users, callers, showVars, repoVars, checkVars, batchVars, dailyVars,
                   allVars>>

\* a text of a chat that was asked for the domain to find
handle_domain_find(c, text) ==
    /\ conv[c].state = "WAITING_DOMAIN_FIND"
    /\ conv' = [conv EXCEPT ![c].state = END]
    /\ sent' = LET domain == Lower(Strip(text)) IN
               IF text = BTN_CANCEL THEN <<Notice(c, "cancelled")>>
               ELSE IF Truthy(find_domain(Loaded.data, domain)) THEN <<Notice(c, "found")>>
               ELSE IF search_domains(Loaded.data, domain) # <<>> THEN <<Notice(c, "similar")>>
               ELSE <<Notice(c, "missing")>>
    /\ UNCHANGED <<users, callers, showVars, repoVars, checkVars, batchVars, dailyVars,
                   allVars>>

\* a text of a chat that was asked for the new name of a domain
handle_domain_edit_new(c, text) ==
    /\ conv[c].state = "WAITING_DOMAIN_EDIT_NEW"
    /\ conv' = [conv EXCEPT ![c].state = END]
    /\ IF text = BTN_CANCEL
       THEN sent' = <<Notice(c, "cancelled")>> /\ UNCHANGED store
       ELSE LET r == update_domain(Loaded.data, conv[c].edit_old_domain, Lower(Strip(text)))
            IN
            /\ store' = Saved(r)
            /\ sent' = <<Notice(c, IF r.res.ok THEN "renamed" ELSE "refused")>>
    /\ UNCHANGED <<users, callers, prev, last, fileKind, showVars, checkVars, batchVars,
                   dailyVars, allVars>>

\* a click of a chat that has no conversation: inline_button_handler. The
\* keyboards are in the replies to the menu texts and to a click, so the chat
\* that clicks is one that handle_message has subscribed
inline_button_handler(c, data) ==
    /\ conv[c].state = END
    /\ c \in load_users
    /\ IF data.action = "acc_"
       THEN /\ sent' = IF Truthy(ByPrefix(AccountNames(Loaded.data), data.arg, 50))
                       THEN <<Notice(c, "account")>> ELSE <<Notice(c, "missing")>>
            /\ UNCHANGED <<store, conv>>
       ELSE IF data.action = "remacc_"
       THEN /\ sent' = IF Truthy(ByPrefix(AccountNames(Loaded.data), data.arg, 40))
                       THEN <<Notice(c, "pick")>> ELSE <<Notice(c, "missing")>>
            /\ UNCHANGED <<store, conv>>
       ELSE IF data.action = "del_"
       THEN LET domain == ByPrefix(get_all_domains(Loaded.data), data.arg, 50)
                r == remove_domain(Loaded.data, domain.val)
            IN
            /\ store' = IF Truthy(domain) THEN Saved(r) ELSE store
            /\ sent' = IF ~Truthy(domain) THEN <<Notice(c, "missing")>>
                       ELSE <<Notice(c, IF r.res.ok THEN "removed" ELSE "refused")>>
            /\ UNCHANGED conv
       ELSE /\ conv' = [conv EXCEPT ![c] = [state |-> "WAITING_DOMAIN_EDIT_NEW",
                                            edit_old_domain |-> data.arg]]
            /\ sent' = <<Notice(c, "ask")>>
            /\ UNCHANGED store
    /\ UNCHANGED <<users, callers, prev, last, fileKind, showVars, checkVars, batchVars,
                   dailyVars, allVars>>

\* lines 342, 363 and 540: the callback data of the button made for a name,
\* the action and the first n characters of the name
Button(action, name, n) ==
    [action |-> action, arg |-> SubSeq(name, 1, IF Len(name) < n THEN Len(name) ELSE n)]

\* a domain of 53 characters: fifty times "d", then a letter and ".x"
LongDom(letter) == [j \in 1..50 |-> "d"] \o <<letter, ".", "x">>

\* files with two accounts, "x" and "xy" in either order; one holds "d.x" and
\* "d.xy", the other two domains that share their first 50 characters
ButtonStores ==
    { <<[name |-> n[1], domains |-> l1], [name |-> n[2], domains |-> l2]>> :
        n \in {<<<<"x">>, <<"x", "y">>>>, <<<<"x", "y">>, <<"x">>>>},
        l1 \in {<<Dom(1), Dom(1) \o <<"y">>>>, <<Dom(1) \o <<"y">>, Dom(1)>>},
        l2 \in {<<LongDom("a"), LongDom("b")>>, <<LongDom("b"), LongDom("a")>>} }

\* daily_check as one event of the bot: what it sends on these answers of the
\* WHOIS source, to the subscribers in this order, each send accepted or not
daily_check(answers, order, oks) ==
    LET domains == get_all_domains(Loaded.data)
        Checked(i) == check_domain(domains[i], EXPIRY_WARNING_DAYS, answers[i], Noon)
        Expiring(i) == Checked(i).info.is_expiring_soon
        listed == SelectSeq([i \in 1..Len(domains) |-> i], Expiring)
        expiring_results ==
            [k \in 1..Len(listed) |->
                Entry(Checked(listed[k]).info, find_domain(Loaded.data, domains[listed[k]]))]
    IN IF \E i \in 1..Len(domains) : Checked(i).raised THEN <<>>
       ELSE IF expiring_results = <<>> THEN <<>>
       ELSE [k \in 1..Len(order) |-> DailyDigest(order[k], expiring_results, oks[k])]

\* the job queue runs daily_check: on any answers of the WHOIS source, the
\* subscribers in any order, any of the sends accepted
DailyJob ==
    /\ LET n == Len(get_all_domains(Loaded.data))
           m == Cardinality(load_users)
           orders == {o \in [1..m -> load_users] : \A i, j \in 1..m : o[i] = o[j] => i = j}
       IN sent' \in {daily_check(answers, order, oks) :
                        answers \in [1..n -> Answers(get_all_domains(Loaded.data))],
                        order \in orders, oks \in [1..m -> BOOLEAN]}
    /\ UNCHANGED <<users, botVars, showVars, repoVars, checkVars, batchVars, dailyVars, allVars>>

(***************************************************************************)
(* The interactive check of all domains: check_all_domains                 *)
(***************************************************************************)
AllOff == caPc = "off" /\ caDomains = <<>> /\ caResults = <<>> /\ caExpiring = 0

AllInit == caPc = "called" /\ caDomains = <<>> /\ caResults = <<>> /\ caExpiring = 0

\* lines 218-227: the domains are read; an empty list is answered at once
CheckAllStart ==
    /\ caPc = "called"
    /\ caDomains' = get_all_domains(store)
    /\ caPc' = IF get_all_domains(store) = <<>> THEN "returned" ELSE "loop"
    /\ UNCHANGED <<extVars, caResults, caExpiring, repoVars, checkVars, batchVars, dailyVars>>

\* lines 232-240: one turn of the loop, on an answer of these
CheckAllWith(answers) ==
    /\ caPc = "loop"
    /\ Len(caResults) < Len(caDomains)
    /\ \E resp \in answers :
        LET domain == caDomains[Len(caResults) + 1]
            r == check_domain(domain, EXPIRY_WARNING_DAYS, resp, Noon)
        IN
        IF r.raised
        THEN caPc' = "raised" /\ UNCHANGED <<caResults, caExpiring>>
        ELSE /\ caResults' = Append(caResults, [info |-> r.info,
                                                account |-> find_domain(store, domain)])
             /\ caExpiring' = IF r.info.is_expiring_soon
                               THEN caExpiring + 1 ELSE caExpiring
             /\ caPc' = caPc
    /\ UNCHANGED <<extVars, caDomains, repoVars, checkVars, batchVars, dailyVars>>

CheckAllOne == CheckAllWith(Answers(caDomains))

\* one turn of the loop for a domain of a short list, when the source answers
\* with an expiry field that is a text of SafeSize characters and no date
CheckAllOneLong ==
    /\ Len(caDomains) <= MaxBatch
    /\ CheckAllWith({RespDict(PaidStr("other", 0, SafeSize), None)})

\* lines 244-245: the length of the warning with the count, when there is one
WarningLen(expiring_count) ==
    IF expiring_count > 0 THEN 33 + Digits(expiring_count) ELSE 0

\* lines 249-258: the chunks, each the entries it joins; current starts as the
\* empty text
RECURSIVE Pack(_, _, _)
Pack(results, current, chunks) ==
    IF results = <<>> THEN (IF current # <<>> THEN Append(chunks, current) ELSE chunks)
    ELSE IF JoinLen(current) + Head(results).text.len > 3900
    THEN Pack(Tail(results), <<Head(results)>>, Append(chunks, current))
    ELSE Pack(Tail(results), Append(current, Head(results)), chunks)

\* lines 242-266: the texts check_all_domains replies with, in order: the
\* joined results with the warning, or the chunks when that is too long
AllReplies(chat, results, expiring_count) ==
    LET entries == [i \in 1..Len(results) |-> Entry(results[i].info, results[i].account)]
        message == JoinLen(entries) + WarningLen(expiring_count)
        chunks  == Pack(entries, <<>>, <<>>)
    IN IF message > SafeSize
       THEN [i \in 1..Len(chunks) |->
                Message(chat, "chunk", 0, chunks[i], JoinLen(chunks[i]), TRUE)]
       ELSE <<Message(chat, "all", 0, entries, message, TRUE)>>

\* lines 242-266: the loop is over and the replies are sent, until one of
\* them is not accepted by the transport: the run then ends as failed, with
\* the exception of reply_text
CheckAllReply ==
    /\ caPc = "loop"
    /\ Len(caResults) = Len(caDomains)
    /\ LET replies == AllReplies(Requester, caResults, caExpiring) IN
       \E accepted \in 0..Len(replies) :
          /\ sent' = sent \o [i \in 1..(IF accepted < Len(replies) THEN accepted + 1
                                                                   ELSE accepted) |->
                                [replies[i] EXCEPT !.ok = i <= accepted]]
          /\ caPc' = IF accepted = Len(replies) THEN "returned" ELSE "failed"
    /\ UNCHANGED <<users, showVars, botVars, caDomains, caResults, caExpiring, repoVars,
                   checkVars, batchVars, dailyVars>>

(***************************************************************************)
(* Two callers of add_domain on one file: the reads and the write of a    *)
(* call are steps, and the steps of the two calls interleave.              *)
(***************************************************************************)
Callers == {1, 2}

\* the domains and the accounts the two callers pass to add_domain
RaceDomains == { <<"a", ".", "x">>, <<"c", ".", "x">>, <<"C", ".", "x", " ">>, <<"a", "x">> }
RaceAccounts == { None, Some(<<"y">>) }

\* a call that has not started: its arguments, the data it has loaded, whether
\* the other call had saved when it loaded, whether it has saved, its result
NewCall(raw, account) ==
    [pc |-> "called", raw |-> raw, account |-> account, data |-> EmptyStore,
     afterSave |-> FALSE, saved |-> FALSE, res |-> NoCall.res]

\* a save of the loaded data as it is
AppendNothing(data, domain, account) == data

\* lines 100-110: the loaded data with the domain appended to the account, or
\* to the first account when none is given
AppendTo(data, domain, account) ==
    LET target == IF ~Truthy(account) THEN FirstAccount(data) ELSE account.val
        st2    == IF HasAccount(data, target) THEN data
                  ELSE Append(data, [name |-> target, domains |-> <<>>])
    IN [st2 EXCEPT ![IndexOf(target, AccountNames(st2))].domains =
           Append(@, Strip(Lower(domain)))]

Returns(p, res) == callers' = [callers EXCEPT ![p].pc = "returned", ![p].res = res]

\* lines 87-92: the form of the domain is tested and the file is read
RaceLoad ==
    /\ \E p \in Callers :
        /\ callers[p].pc = "called"
        /\ IF BadFormat(Strip(Lower(callers[p].raw)))
           THEN Returns(p, Result(FALSE, "format", EmptyStr, EmptyStr))
           ELSE callers' = [callers EXCEPT
                   ![p].pc = "loaded",
                   ![p].data = Loaded.data,
                   ![p].afterSave = \E q \in Callers \ {p} : callers[q].saved]
    /\ UNCHANGED <<sendVars, conv, showVars, repoVars, checkVars, batchVars, dailyVars, allVars>>

\* lines 95-104: find_domain reads the file again; the account is chosen in
\* the data that was loaded
RaceCheck ==
    /\ \E p \in Callers :
        LET domain   == Strip(Lower(callers[p].raw))
            existing == find_domain(Loaded.data, domain)
        IN
        /\ callers[p].pc = "loaded"
        /\ IF Truthy(existing)
           THEN Returns(p, Result(FALSE, "exists", domain, existing.val))
           ELSE IF ~Truthy(callers[p].account) /\ callers[p].data = EmptyStore
           THEN Returns(p, Result(FALSE, "noaccount", EmptyStr, EmptyStr))
           ELSE callers' = [callers EXCEPT ![p].pc = "checked"]
    /\ UNCHANGED <<sendVars, conv, showVars, repoVars, checkVars, batchVars, dailyVars, allVars>>

\* lines 106-112: the domain is appended to the loaded data and the file is
\* written with them
RaceSave ==
    /\ \E p \in Callers :
        LET c == callers[p]
            target == IF ~Truthy(c.account) THEN FirstAccount(c.data) ELSE c.account.val
        IN
        /\ c.pc = "checked"
        /\ store' = AppendTo(c.data, c.raw, c.account)
        /\ callers' = [callers EXCEPT
               ![p].pc = "returned", ![p].saved = TRUE,
               ![p].res = Result(TRUE, "added", Strip(Lower(c.raw)), target)]
    /\ UNCHANGED <<sendVars, conv, showVars, prev, last, fileKind, checkVars, batchVars,
                   dailyVars, allVars>>

(***************************************************************************)
(* Specifications                                                          *)
(***************************************************************************)
CheckOff == ckIn = <<>> /\ ckOut = NoCheck

\* the repository under any sequence of calls, one at a time, from an empty file
Init == RepoInit /\ CheckOff /\ BatchOff /\ DailyOff /\ AllOff /\ ShowOff /\ SendOff

Next ==
    \/ AddDomain
    \/ RemoveDomain
    \/ UpdateDomain
    \/ AddAccount
    \/ RemoveAccount

Spec == Init /\ [][Next]_vars

\* the repository under any sequence of calls, reads included, from a file
\* whose content cannot be parsed
CorruptInit ==
    /\ store = EmptyStore /\ prev = EmptyStore /\ last = NoCall
    /\ fileKind \in {"text", "bytes"}
    /\ CheckOff /\ BatchOff /\ DailyOff /\ AllOff /\ ShowOff /\ SendOff

CorruptNext ==
    \/ AddDomain
    \/ RemoveDomain
    \/ UpdateDomain
    \/ AddAccount
    \/ RemoveAccount
    \/ GetAllDomains
    \/ FindDomain
    \/ SearchDomains
    \/ GetStats

SpecCorrupt == CorruptInit /\ [][CorruptNext]_vars

\* the bot under any sequence of events of two chats and of the daily job,
\* on a file that holds an account
BotInit ==
    /\ store = StoreOf(1)
    /\ prev = store /\ last = NoCall /\ fileKind = "json"
    /\ users = {} /\ sent = <<>> /\ callers = <<>>
    /\ conv = [c \in Chats |-> NoConversation]
    /\ CheckOff /\ BatchOff /\ DailyOff /\ AllOff /\ ShowOff

BotNext ==
    \/ \E c \in Chats : start(c)
    \/ \E c \in Chats, text \in Texts : handle_message(c, text)
    \/ \E c \in Chats, text \in Texts : handle_domain_add(c, text)
    \/ \E c \in Chats, text \in Texts : handle_domain_check(c, text)
    \/ \E c \in Chats, text \in Texts : handle_domain_find(c, text)
    \/ \E c \in Chats, text \in Texts : handle_domain_edit_new(c, text)
    \/ \E c \in Chats, data \in ButtonData : inline_button_handler(c, data)
    \/ DailyJob

SpecBot == BotInit /\ [][BotNext]_vars

\* the daily job runs while the first chat has asked for a check of all
\* domains or for the expiring ones and the second chat answers the question
\* for a domain to check, to find or to add. The application handles one
\* update at a time and the job is a task of its own; a coroutine keeps the
\* event loop from its first check to its next await
ReadersInit ==
    /\ store \in {StoreOf(n) : n \in 1..MaxDomains}
    /\ prev = store /\ last = NoCall /\ fileKind = "json"
    /\ users = {Requester} /\ sent = <<>> /\ callers = <<>>
    /\ conv \in {[c \in Chats |-> IF c = Requester THEN NoConversation
                                  ELSE [state |-> w, edit_old_domain |-> EmptyStr]] :
                    w \in {"WAITING_DOMAIN_CHECK", "WAITING_DOMAIN_FIND",
                           "WAITING_DOMAIN_ADD"}}
    /\ CheckOff /\ BatchOff /\ DailyInit
    /\ \/ AllInit /\ ShowOff
       \/ AllOff /\ ShowInit

\* daily_check, check_all_domains or show_expiring is between two awaits
DailyBusy == dcPc = "loop"
AllBusy == caPc = "loop" /\ caResults # <<>>
ShowBusy == sePc = "loop" /\ seInfos # <<>>

\* the event loop can run a step of the job, a step of the interactive run,
\* or the handler of the next update
JobMayRun == ~AllBusy /\ ~ShowBusy
RunMayRun == ~DailyBusy
HandlerMayRun == ~DailyBusy /\ caPc # "loop" /\ sePc # "loop"

\* the steps that read the domains: the runs and the two handlers
ReadersRead ==
    \/ JobMayRun /\ DailyStart
    \/ JobMayRun /\ DailyCheckOne
    \/ JobMayRun /\ DailyCompose
    \/ JobMayRun /\ DailySend
    \/ JobMayRun /\ DailyDone
    \/ RunMayRun /\ CheckAllStart
    \/ RunMayRun /\ CheckAllOne
    \/ RunMayRun /\ CheckAllReply
    \/ RunMayRun /\ ShowStart
    \/ RunMayRun /\ ShowCheckOne
    \/ RunMayRun /\ ShowReply
    \/ HandlerMayRun /\ \E c \in Chats, text \in Texts : handle_domain_check(c, text)
    \/ HandlerMayRun /\ \E c \in Chats, text \in Texts : handle_domain_find(c, text)

ReadersNext ==
    \/ ReadersRead
    \/ HandlerMayRun /\ \E c \in Chats, text \in Texts : handle_domain_add(c, text)

SpecReaders == ReadersInit /\ [][ReadersNext]_vars

\* the chats click buttons that the menus made for the accounts and the
\* domains of the file
ButtonsInit ==
    /\ store \in ButtonStores
    /\ prev = store /\ last = NoCall /\ fileKind = "json"
    /\ users = Chats /\ sent = <<>> /\ callers = <<>>
    /\ conv = [c \in Chats |-> NoConversation]
    /\ CheckOff /\ BatchOff /\ DailyOff /\ AllOff /\ ShowOff

ButtonsNext ==
    \/ \E c \in Chats, i \in 1..Len(Loaded.data) :
           inline_button_handler(c, Button("acc_", Loaded.data[i].name, 50))
    \/ \E c \in Chats, i \in 1..Len(Loaded.data) :
           inline_button_handler(c, Button("remacc_", Loaded.data[i].name, 40))
    \/ \E c \in Chats, i \in 1..Len(get_all_domains(Loaded.data)) :
           inline_button_handler(c, Button("del_", get_all_domains(Loaded.data)[i], 50))

SpecButtons == ButtonsInit /\ [][ButtonsNext]_vars

\* two calls of add_domain on a file with up to two domains, their steps in
\* any order
RaceInit ==
    /\ store \in {StoreOf(n) : n \in 0..2}
    /\ prev = store /\ last = NoCall /\ fileKind = "json"
    /\ callers \in {[p \in Callers |-> NewCall(raws[p], accounts[p])] :
                       raws \in [Callers -> RaceDomains], accounts \in [Callers -> RaceAccounts]}
    /\ users = {} /\ sent = <<>> /\ conv = <<>>
    /\ CheckOff /\ BatchOff /\ DailyOff /\ AllOff /\ ShowOff

RaceNext ==
    \/ RaceLoad
    \/ RaceCheck
    \/ RaceSave

SpecRace == RaceInit /\ [][RaceNext]_vars

\* one call of check_domain_async on any answer of the WHOIS source, and the
\* rendering of its result
CheckSpecInit ==
    RepoInit /\ CheckInit /\ BatchOff /\ DailyOff /\ AllOff /\ ShowOff /\ SendOff

CheckNext ==
    \/ CheckDomain
    \/ FormatInfo

SpecCheck == CheckSpecInit /\ [][CheckNext]_vars

\* one run of daily_check, of check_all_domains or of show_expiring on a file
\* of n domains, with any subscribers
RunOn(n) ==
    /\ store = StoreOf(n)
    /\ prev = store
    /\ last = NoCall
    /\ fileKind = "json"
    /\ CheckOff /\ BatchOff
    /\ users \in SUBSET Chats
    /\ sent = <<>>
    /\ conv = <<>> /\ callers = <<>>
    /\ \/ DailyInit /\ AllOff /\ ShowOff
       \/ DailyOff /\ AllInit /\ ShowOff
       \/ DailyOff /\ AllOff /\ ShowInit

\* one run of check_domains_batch, of daily_check, of check_all_domains or of
\* show_expiring
RunnersInit ==
    \/ RepoInit /\ CheckOff /\ BatchInit(MaxBatch) /\ DailyOff /\ AllOff /\ ShowOff /\ SendOff
    \/ \E n \in 0..MaxBatch : RunOn(n)

RunnersNext ==
    \/ BatchCall
    \/ TaskStart
    \/ TaskFinish
    \/ GatherReturn
    \/ DailyStart
    \/ DailyCheckOne
    \/ DailyCompose
    \/ DailySend
    \/ DailyDone
    \/ ShowStart
    \/ ShowCheckOne
    \/ ShowReply
    \/ CheckAllStart
    \/ CheckAllOne
    \/ CheckAllReply

SpecRunners == RunnersInit /\ [][RunnersNext]_vars

\* one run of daily_check or of show_expiring on a long list of domains that
\* all expire soon
DigestInit == \E n \in (MaxBatch + 1)..DigestDomains : RunOn(n) /\ caPc = "off"

DigestNext ==
    \/ DailyStart
    \/ DailyCheckOne
    \/ DailyCompose
    \/ DailySend
    \/ DailyDone
    \/ ShowStart
    \/ ShowCheckOne
    \/ ShowReply

SpecDigest == DigestInit /\ [][DigestNext]_vars

\* one run of check_all_domains: on a long list of domains that all expire
\* soon, or on a short list with any answers, a very long one among them
AllRunInit == \E n \in 1..DigestDomains : RunOn(n) /\ caPc = "called"

AllRunNext ==
    \/ CheckAllStart
    \/ CheckAllOne
    \/ CheckAllOneLong
    \/ CheckAllReply

SpecAll == AllRunInit /\ [][AllRunNext]_vars

\* the start of a batch of up to BigBatch domains, before any answer arrives
FanoutNext ==
    \/ BatchCall
    \/ TaskStart

\* a batch whose requests the source may never answer: the event loop runs
\* every coroutine that can run, and the timer of a request that stays without
\* an answer fires
BatchOnly ==
    RepoInit /\ CheckOff /\ BatchInit(MaxBatch) /\ DailyOff /\ AllOff /\ ShowOff /\ SendOff

BatchFairNext ==
    \/ BatchCall
    \/ TaskStart
    \/ TaskAnswered
    \/ \E i \in 1..MaxBatch : TimedOut(i)
    \/ GatherReturn

SpecBatchFair ==
    /\ BatchOnly
    /\ [][BatchFairNext]_vars
    /\ WF_vars(BatchCall) /\ WF_vars(TaskStart) /\ WF_vars(GatherReturn)
    /\ \A i \in 1..MaxBatch : WF_vars(TimedOut(i))

FanoutInit ==
    RepoInit /\ CheckOff /\ BatchInit(BigBatch) /\ DailyOff /\ AllOff /\ ShowOff /\ SendOff

SpecFanout == FanoutInit /\ [][FanoutNext]_vars

(***************************************************************************)
(* Vocabulary of the properties                                            *)
(***************************************************************************)
\* a raw text as the repository stores it: trimmed, in lower case
Norm(raw) == Strip(Lower(raw))

\* non-empty and with a '.'
WellFormed(d) == d # <<>> /\ \E i \in 1..Len(d) : d[i] = "."

\* the number of entries of a list that equal d when compared in lower case
Occurrences(d, list) == Cardinality({i \in 1..Len(list) : Lower(list[i]) = d})

\* d is somewhere in the file st
Stored(st, d) == Occurrences(d, get_all_domains(st)) > 0

\* a list without its entry at position idx
Without(list, idx) == [i \in 1..(Len(list) - 1) |-> IF i < idx THEN list[i] ELSE list[i + 1]]

(***************************************************************************)
(* Properties of the repository, under Spec                                *)
(***************************************************************************)
\* C1: after any sequence of add_account, remove_account, add, remove and rename
\* calls from an empty store, no domain name, compared case-insensitively,
\* occurs more than once across all accounts' lists.
C1_NoDomainTwice ==
    LET all == get_all_domains(store) IN
    \A i, j \in 1..Len(all) : i # j => Lower(all[i]) # Lower(all[j])

\* C2: add(d) with no account given, for a well-formed d, in every repository
\* state, the empty one included: when d is not yet stored it succeeds with a
\* message naming d and list_domains() then holds d exactly once (from the
\* empty repository list_domains() is [d]); when d is stored it fails with the
\* 'already exists' error.
C2_AddThenDuplicate ==
    LET d == Norm(last.a1) IN
    (last.op = "add" /\ ~last.acct.some /\ WellFormed(d)) =>
        IF Stored(prev, d)
        THEN ~last.res.ok /\ last.res.kind = "exists"
        ELSE /\ last.res.ok
             /\ last.res.domain = d
             /\ Occurrences(d, get_all_domains(store)) = 1
             /\ (prev = EmptyStore => get_all_domains(store) = <<d>>)

\* C3: rename(a, b) with a stored and b well-formed and not stored succeeds;
\* afterwards list_domains() holds b and not a, b is at the position (account
\* and index) a held, and every other entry keeps its value and position.
C3_RenameInPlace ==
    LET a == Norm(last.a1)
        b == Norm(last.a2)
    IN
    (last.op = "rename" /\ Stored(prev, a) /\ WellFormed(b) /\ ~Stored(prev, b)) =>
        /\ last.res.ok
        /\ Stored(store, b)
        /\ ~Stored(store, a)
        /\ \E k \in 1..Len(prev) : \E idx \in 1..Len(prev[k].domains) :
               /\ Lower(prev[k].domains[idx]) = a
               /\ store = [prev EXCEPT ![k].domains[idx] = b]

\* C4: remove(d) of a d that is not stored returns the not-found failure and
\* leaves every account and its ordered list unchanged; remove(d) of a stored
\* d removes exactly one entry, an entry equal to d, and nothing else.
C4_RemoveExactlyOne ==
    LET d == Norm(last.a1) IN
    last.op = "remove" =>
        IF Stored(prev, d)
        THEN /\ last.res.ok
             /\ \E k \in 1..Len(prev) : \E idx \in 1..Len(prev[k].domains) :
                    /\ Lower(prev[k].domains[idx]) = d
                    /\ store = [prev EXCEPT ![k].domains = Without(@, idx)]
        ELSE ~last.res.ok /\ last.res.kind = "notfound" /\ store = prev

\* a stored domain was removed from the head of a list in which another entry
\* follows it
C4_RemovedAmongOthers ==
    /\ last.op = "remove"
    /\ last.res.ok
    /\ \E k \in 1..Len(prev) :
           /\ Len(prev[k].domains) >= 2
           /\ Lower(prev[k].domains[1]) = Norm(last.a1)
           /\ Len(store[k].domains) = Len(prev[k].domains) - 1

\* C5: add(d) whose d, trimmed and in lower case, is empty or has no '.' fails
\* with the format error in every repository state and leaves the store
\* unchanged; the test comes before the duplicate and the no-account tests, so
\* it is the answer in an empty repository too.
C5_MalformedAddRejected ==
    (last.op = "add" /\ ~WellFormed(Norm(last.a1))) =>
        ~last.res.ok /\ last.res.kind = "format" /\ store = prev

\* a text without '.' was offered, with no account given, to the empty
\* repository, and was refused for its format
C5_MalformedOffered ==
    /\ last.op = "add"
    /\ ~last.acct.some
    /\ Norm(last.a1) # <<>>
    /\ ~WellFormed(Norm(last.a1))
    /\ prev = EmptyStore
    /\ last.res.kind = "format"

RECURSIVE ExpiringOf(_)
ExpiringOf(infos) ==
    IF infos = <<>> THEN <<>>
    ELSE (IF Head(infos).is_expiring_soon THEN <<Head(infos).domain>> ELSE <<>>)
         \o ExpiringOf(Tail(infos))

\* C7: checkAll([d1..dn]) returns exactly n results and the i-th result is the
\* DomainInfo of d_i, whichever lookups fail and in whatever order they
\* complete; so does the loop of check_all_domains.
C7_ResultsInInputOrder ==
    /\ bPc = "returned" =>
           /\ Len(bResult) = Len(bDomains)
           /\ \A i \in 1..Len(bDomains) :
                  bResult[i].domain = bDomains[i] /\ bResult[i] = bTasks[i].info
    /\ (caPc = "returned" /\ caDomains # <<>>) =>
           /\ Len(caResults) = Len(caDomains)
           /\ \A i \in 1..Len(caDomains) : caResults[i].info.domain = caDomains[i]

\* a batch has returned in which the second lookup completed before the first
\* and the first lookup failed
C7_LaterFinishedFirst ==
    /\ bPc = "returned"
    /\ Len(bDomains) >= 2
    /\ bTasks[2].seq < bTasks[1].seq
    /\ bResult[1].error.some
    /\ ~bResult[2].error.some

\* C8: during checkAll the number of checks simultaneously in flight never
\* exceeds the fixed cap of 10; checks beyond the cap wait until earlier ones
\* finish.
C8_AtMostTenInFlight == Cardinality(InFlight) <= 10

\* C9: a lookup failure of one domain never aborts a batch or the daily
\* digest: no run ends with an exception, every input domain yields a
\* DomainInfo, and the domains after a failing one are still checked and,
\* when expiring, still reported.
C9_FailureNeverAborts ==
    /\ bPc # "raised" /\ dcPc # "raised" /\ caPc # "raised"
    /\ \A i \in Finished : ~bTasks[i].raised /\ bTasks[i].info.domain = bDomains[i]
    /\ bPc = "returned" => Len(bResult) = Len(bDomains)
    /\ dcPc \in {"loop", "send", "returned"} =>
           /\ Len(dcInfos) = dcIdx
           /\ \A i \in 1..dcIdx : dcInfos[i].domain = dcDomains[i]
           /\ dcReport = ExpiringOf(dcInfos)
    /\ dcPc \in {"send", "returned"} => dcIdx = Len(dcDomains)

\* a daily check has built its digest after the lookup of its first domain
\* failed with an exception: the later, expiring domain is in the digest
C9_ReportedAfterFailure ==
    /\ dcPc = "send"
    /\ Len(dcDomains) >= 2
    /\ dcInfos[1].error.some
    /\ dcInfos[1].error.kind = "exception"
    /\ dcInfos[2].is_expiring_soon
    /\ dcReport = <<dcDomains[2]>>

(***************************************************************************)
(* Properties of one check, under SpecCheck                                *)
(***************************************************************************)
\* the text of the paid field is a date in one of the two formats
ParsableText(paid) == paid.type = "str" /\ paid.fmt \in {"dmy", "ymd"}

\* the lookup or the parse fails: no answer, an exception, a status other than
\* 200, a body that is no JSON object, no expiry field, or an expiry field that
\* is not the text of a date
LookupFails(resp) ==
    \/ resp.kind \in {"timeout", "error"}
    \/ resp.status # 200
    \/ resp.json # "dict"
    \/ ~ParsableText(resp.paid)

NothingButError(info) ==
    /\ info.error.some
    /\ ~info.expiry_date.some
    /\ ~info.days_left.some
    /\ ~info.is_expiring_soon

\* C10 as claimed: every DomainInfo returned for a failed lookup or parse has
\* error set, expiry_date, days_left and registrar absent, and is_expiring_soon
\* false.
C10_FailureAllEmpty ==
    (ckOut.pc = "returned" /\ LookupFails(ckIn.resp)) =>
        NothingButError(ckOut.info) /\ ~ckOut.info.registrar.some

\* C10 as amended: every DomainInfo returned for a failed lookup or parse has
\* error set, expiry_date and days_left absent and is_expiring_soon false;
\* registrar is absent after a status other than 200, a timeout or an
\* exception, and is the registrar field of the answer when the answer is a
\* JSON object whose expiry field is missing or is a text that is no date.
C10_FailureKeepsRegistrar ==
    (ckOut.pc = "returned" /\ LookupFails(ckIn.resp)) =>
        /\ ~ckOut.raised
        /\ NothingButError(ckOut.info)
        /\ ckOut.info.registrar =
               IF /\ ckIn.resp.kind = "http" /\ ckIn.resp.status = 200
                  /\ ckIn.resp.json = "dict"
                  /\ ckIn.resp.paid.type \in {"absent", "str"}
               THEN ckIn.resp.registrar
               ELSE None

\* a check has returned an error DomainInfo that carries a registrar
C10_ErrorWithRegistrar ==
    /\ ckOut.pc = "returned"
    /\ LookupFails(ckIn.resp)
    /\ ckOut.info.error.some
    /\ ckOut.info.registrar.some

\* C11: for every days_left, negative ones included, and every warning_days,
\* is_expiring_soon = (days_left < warning_days) and the entry is rendered red
\* when is_expiring_soon, otherwise yellow when days_left <= 60, otherwise
\* green; with warning_days = 31, 30 and -5 days are red, 45 days are yellow
\* and 90 days are green.
C11_TierByDaysLeft ==
    (ckOut.pc = "formatted" /\ ckOut.info.days_left.some) =>
        LET d == ckOut.info.days_left.val
            w == ckIn.warning_days
            tier == ckOut.text.emoji
        IN
        /\ ckOut.info.is_expiring_soon = (d < w)
        /\ tier = IF d < w THEN "red" ELSE IF d <= 60 THEN "yellow" ELSE "green"
        /\ w = 31 =>
               /\ d \in {0 - 5, 30} => tier = "red"
               /\ d = 45 => tier = "yellow"
               /\ d = 90 => tier = "green"

\* an expired domain, 5 days past its date, has been rendered red under a
\* threshold of 31 days
C11_ExpiredIsRed ==
    /\ ckOut.pc = "formatted"
    /\ ckIn.warning_days = 31
    /\ ckOut.info.days_left = SomeInt(0 - 5)
    /\ ckOut.info.is_expiring_soon
    /\ ckOut.text.emoji = "red"

(***************************************************************************)
(* Properties of the digests, under SpecRunners                            *)
(***************************************************************************)
\* the domains that the entries of a message render, in their order
DomainsOf(entries) == [i \in 1..Len(entries) |-> entries[i].domain]

\* the messages of one kind among those sent
OfKind(kind) == {i \in 1..Len(sent) : sent[i].kind = kind}

\* a message is the digest of exactly the expiring ones of the checked
\* domains, in their order, under a header that names the threshold
DigestOf(msg, infos) ==
    /\ msg.kind = "digest"
    /\ msg.threshold = EXPIRY_WARNING_DAYS
    /\ DomainsOf(msg.entries) = ExpiringOf(infos)
    /\ \A i \in 1..Len(msg.entries) : msg.entries[i].text.emoji = "red"

\* the scheduled path: every message is the digest, and there is none when
\* no domain qualifies
ScheduledDigest ==
    dcPc \in {"send", "returned"} =>
        /\ \A i \in 1..Len(dcInfos) : dcInfos[i].domain = dcDomains[i]
        /\ \A i \in 1..Len(sent) : DigestOf(sent[i], dcInfos) /\ sent[i].chat \in users
        /\ ExpiringOf(dcInfos) = <<>> => sent = <<>>

\* the interactive path with an entry to show: one digest, no confirmation
InteractiveDigest ==
    (sePc = "returned" /\ ExpiringOf(seInfos) # <<>>) =>
        /\ OfKind("none") = {}
        /\ Cardinality(OfKind("digest")) = 1
        /\ \A i \in OfKind("digest") :
               DigestOf(sent[i], seInfos) /\ sent[i].chat = Requester

\* C12 as claimed: the digest holds exactly one rendered entry for each
\* expiring domain, in domain-list order, and none for another domain, under
\* a header that names the threshold; when no domain qualifies the scheduled
\* path sends nothing and the interactive path sends a single 'none expiring'
\* confirmation.
C12_DigestOrNoneExpiring ==
    /\ ScheduledDigest
    /\ InteractiveDigest
    /\ (sePc = "returned" /\ ExpiringOf(seInfos) = <<>>) =>
           Cardinality(OfKind("none")) = 1 /\ OfKind("digest") = {}

\* C12 as amended: as claimed, except that the interactive path sends the
\* single 'none expiring' confirmation only when the domain list is not
\* empty; on an empty list its single reply says that the list is empty.
C12_DigestOrNoneOrEmpty ==
    /\ ScheduledDigest
    /\ InteractiveDigest
    /\ (sePc = "returned" /\ ExpiringOf(seInfos) = <<>>) =>
           /\ OfKind("digest") = {}
           /\ IF seDomains = <<>>
              THEN sent = <<ListEmpty(Requester, TRUE)>>
              ELSE /\ Cardinality(OfKind("none")) = 1
                   /\ \A i \in OfKind("none") :
                          sent[i] = NoneExpiring(Requester, TRUE) /\ i = Len(sent)

\* the daily check of three domains of which only the second expires has sent
\* its digest: the one entry is that of the second domain
C12_OneOfThreeExpiring ==
    /\ dcPc = "returned"
    /\ Len(dcDomains) = 3
    /\ ~dcInfos[1].is_expiring_soon /\ dcInfos[2].is_expiring_soon
    /\ ~dcInfos[3].is_expiring_soon
    /\ sent # <<>>
    /\ DomainsOf(sent[1].entries) = <<dcDomains[2]>>

(***************************************************************************)
(* Properties of the digests of long lists, under SpecDigest               *)
(***************************************************************************)
\* C13: no digest message sent by the scheduled daily check or by the
\* interactive show-expiring path exceeds the safe transport size; a longer
\* digest goes out as several messages, each under the cap.
C13_DigestFitsTransport ==
    \A i \in 1..Len(sent) : sent[i].kind = "digest" => sent[i].len <= SafeSize

(***************************************************************************)
(* Properties of the accounts, under Spec                                  *)
(***************************************************************************)
\* the positions of the accounts of a file that bear a name
Named(st, name) == {i \in 1..Len(st) : st[i].name = name}

\* C14: remove_account of an existing account removes it with all its
\* domains, none of which is listed or has an owner afterwards, and leaves
\* every other account and its list unchanged; remove_account of an absent
\* account fails with not-found and add_account of an existing account fails
\* with duplicate, both leaving the file unchanged.
C14_RemoveAccountCascades ==
    /\ (last.op = "remove_account" /\ Named(prev, last.a1) # {}) =>
           \E k \in Named(prev, last.a1) :
               /\ last.res.ok
               /\ store = Without(prev, k)
               /\ \A i \in 1..Len(prev[k].domains) :
                      /\ ~Stored(store, Lower(prev[k].domains[i]))
                      /\ find_domain(store, prev[k].domains[i]) = None
    /\ (last.op = "remove_account" /\ Named(prev, last.a1) = {}) =>
           ~last.res.ok /\ last.res.kind = "notfound" /\ store = prev
    /\ (last.op = "add_account" /\ Named(prev, last.a1) # {}) =>
           ~last.res.ok /\ last.res.kind = "exists" /\ store = prev

\* the accounts of a file whose name is the given one up to letter case
NamedAnyCase(st, name) == {i \in 1..Len(st) : Lower(st[i].name) = Lower(name)}

\* C15: every existence and duplicate check of the repository is
\* case-insensitive, for domains (add, remove, rename, find_domain) and for
\* accounts (add_account, remove_account): an identifier that differs from a
\* stored one only in letter case is found by lookups and rejected as a
\* duplicate by inserts.
C15_ChecksIgnoreCase ==
    /\ \A raw \in DomainInputs :
           Stored(store, Norm(raw)) => find_domain(store, raw).some
    /\ (last.op = "add" /\ Stored(prev, Norm(last.a1))) =>
           ~last.res.ok /\ last.res.kind = "exists" /\ store = prev
    /\ (last.op = "remove" /\ Stored(prev, Norm(last.a1))) => last.res.ok
    /\ (last.op = "rename" /\ Stored(prev, Norm(last.a2))) =>
           ~last.res.ok /\ last.res.kind = "exists" /\ store = prev
    /\ (last.op = "add_account" /\ NamedAnyCase(prev, Strip(last.a1)) # {}) =>
           ~last.res.ok /\ last.res.kind = "exists" /\ store = prev
    /\ (last.op = "remove_account" /\ NamedAnyCase(prev, last.a1) # {}) =>
           last.res.ok /\ NamedAnyCase(store, last.a1) = {}

(***************************************************************************)
(* A list of candidate dates, under SpecCheck                              *)
(***************************************************************************)
\* the answer in which the first candidate date arrives as a single value
SingleValued(resp) == [resp EXCEPT !.paid.type = "str"]

\* C16: when the expiry field arrives as a list of candidate dates, check
\* uses the first element and returns the same DomainInfo (expiry date, days
\* left, expiring flag, no error) as when that element arrives as a single
\* value.
C16_ListUsesFirstElement ==
    (ckOut.pc = "returned" /\ ckIn.resp.paid.type = "list") =>
        /\ ~ckOut.raised
        /\ ~ckOut.info.error.some
        /\ ckOut.info = check_domain_async(ckIn.domain, ckIn.warning_days,
                                           SingleValued(ckIn.resp), ckIn.now).info

(***************************************************************************)
(* Properties of a file that cannot be parsed, under SpecCorrupt           *)
(***************************************************************************)
\* what a call returns on the empty state
OnEmptyState(call) ==
    CASE call.op = "list" -> <<>>
      [] call.op = "find" -> None
      [] call.op = "search" -> <<>>
      [] call.op = "stats" -> [accounts_count |-> 0, domains_count |-> 0, accounts |-> <<>>]
      [] call.op = "add" -> add_domain(EmptyStore, call.a1, call.acct).res
      [] call.op = "remove" -> remove_domain(EmptyStore, call.a1).res
      [] call.op = "rename" -> update_domain(EmptyStore, call.a1, call.a2).res
      [] call.op = "add_account" -> add_account(EmptyStore, call.a1).res
      [] call.op = "remove_account" -> remove_account(EmptyStore, call.a1).res

\* C17: when the content of the backing file is unparsable no repository
\* operation raises: every read returns the empty-state result and every
\* mutation returns a (success, message) result computed against the empty
\* state.
C17_UnparsableFileIsEmptyState ==
    (last.op # "init" /\ last.file # "json") =>
        ~last.raised /\ last.res = OnEmptyState(last)

(***************************************************************************)
(* Properties of the subscribers, under SpecBot                            *)
(***************************************************************************)
\* C18: the persisted subscriber set is append-only: across /start, text
\* messages, button clicks and daily digest runs the set after an event is a
\* superset of the set before it, and a chat that sent /start or a menu
\* message is in the set from then on.
C18_SubscribersOnlyGrow ==
    [][/\ users \subseteq users'
       /\ \A c \in Chats :
              \/ c \in users'
              \/ ~(\/ start(c)
                   \/ \E text \in Texts :
                         \/ handle_message(c, text)
                         \/ handle_domain_add(c, text)
                         \/ handle_domain_check(c, text)
                         \/ handle_domain_find(c, text)
                         \/ handle_domain_edit_new(c, text))
      ]_vars

\* both chats are subscribed, the second while the first was, the daily job
\* has just sent the digest to both and the second chat is being asked for a
\* domain to add
C18_BothSubscribed ==
    /\ users = Chats
    /\ Len(sent) = 2 /\ sent[1].kind = "digest" /\ {sent[1].chat, sent[2].chat} = Chats
    /\ conv[2].state = "WAITING_DOMAIN_ADD"

(***************************************************************************)
(* The order of the tests of a rename, under Spec                          *)
(***************************************************************************)
\* find_domain names an owner of d: the first account that holds d has a name
\* that is not empty
Found(st, d) ==
    \E k \in 1..Len(st) :
        /\ Occurrences(d, st[k].domains) > 0
        /\ st[k].name # <<>>
        /\ \A j \in 1..(k - 1) : Occurrences(d, st[j].domains) = 0

BothAdded ==
    /\ \A p \in Callers : callers[p].pc = "returned" /\ callers[p].res.ok
    /\ Norm(callers[1].raw) # Norm(callers[2].raw)

\* each call read the file before the other wrote it
LoadedBeforeSaves == \A p \in Callers : ~callers[p].afterSave

\* C20: the mutations of the repository are not atomic with respect to each
\* other: when two calls of add for two different valid domains both load
\* the store before either saves, both return success and the persisted store
\* holds only one of the two domains; when one call loads after the other has
\* saved, both domains are stored.
C20_LostUpdate ==
    BothAdded =>
        LET held == {p \in Callers : Stored(store, Norm(callers[p].raw))} IN
        IF LoadedBeforeSaves THEN Cardinality(held) = 1 ELSE held = Callers

\* two calls that both loaded before either saved have both returned success
\* and the file holds the domain of the second only
C20_FirstAddLost ==
    /\ BothAdded /\ LoadedBeforeSaves
    /\ ~Stored(store, Norm(callers[1].raw)) /\ Stored(store, Norm(callers[2].raw))

(***************************************************************************)
(* Termination of a batch, under SpecBatchFair                             *)
(***************************************************************************)
\* C21: check_domains_batch terminates: every check it has dispatched ends,
\* as a success, an error or a timeout, because its request has a bounded
\* timeout, and once they all have ended the batch returns one result for
\* each domain; it does not wait forever for an answer that does not come.
C21_BatchTerminates ==
    /\ \A i \in 1..MaxBatch : (i \in InFlight) ~> (i \in Finished)
    /\ (bPc = "called") ~> (bPc = "returned" /\ Len(bResult) = Len(bDomains))

\* a batch of MaxBatch domains has returned, and the request of its first
\* domain ended by its timeout
C21_ReturnedAfterTimeout ==
    /\ bPc = "returned" /\ Len(bResult) = MaxBatch
    /\ bResult[1].error.kind = "timeout"

(***************************************************************************)
(* The runs and handlers that only read, under SpecReaders                 *)
(***************************************************************************)
\* C22: the daily digest and the interactive checks (all domains, the
\* expiring ones, one domain, the search of a domain) never change the domain
\* data: every step of any of them leaves the file as it was, whatever the
\* answers of the WHOIS source and however the steps interleave.
C22_ReadersLeaveFile ==
    [][ReadersRead => (store' = store /\ fileKind' = fileKind)]_vars

\* the daily job has checked the two domains of the file and has sent its
\* digest; a chat has had a third domain added, and the check of all domains
\* that started after it has returned with three results
C22_RunsInterleaved ==
    /\ dcPc = "returned" /\ caPc = "returned"
    /\ Len(dcInfos) = 2 /\ dcReport # <<>> /\ Len(caResults) = 3
    /\ store # StoreOf(2) /\ Len(get_all_domains(store)) > 2

(***************************************************************************)
(* The length of the error text, under SpecCheck                           *)
(***************************************************************************)
\* C23: the error text of every DomainInfo that check returns is cut to a
\* bounded length: no error text is longer than the 50 characters of the
\* handler of the other exceptions, whatever the text of the exception or
\* the unparsed date text that the WHOIS source returned.
C23_ErrorTextBounded ==
    (ckOut.pc \in {"returned", "formatted"} /\ ~ckOut.raised)
        => ckOut.info.error.len <= 50

(***************************************************************************)
(* The fan-out of the daily digest, under SpecRunners                      *)
(***************************************************************************)
\* the chats the job has sent a digest to, whether the send failed or not
DigestChats == {sent[i].chat : i \in 1..Len(sent)}

\* C24: when the daily digest is not empty, a send of the same digest text
\* is attempted exactly once to every subscriber of the persisted set, and a
\* send that fails does not keep the job from the sends to the subscribers
\* that remain.
C24_DigestOnceToEverySubscriber ==
    /\ dcPc \in {"send", "returned"} /\ dcTexts # <<>> =>
          /\ Len(sent) = Cardinality(DigestChats)
          /\ \A i \in 1..Len(sent) :
                 \E ok \in BOOLEAN : sent[i] = DailyDigest(sent[i].chat, dcTexts, ok)
          /\ DigestChats \cap dcUsers = {}
          /\ DigestChats \cup dcUsers = load_users
    /\ dcPc = "returned" /\ dcTexts # <<>> => DigestChats = load_users

\* the job has returned after two sends, to two subscribers, of which the
\* first failed
C24_SentAfterFailedSend ==
    /\ dcPc = "returned" /\ Len(sent) = 2
    /\ ~sent[1].ok /\ sent[2].ok /\ sent[1].chat # sent[2].chat
    /\ {sent[1].chat, sent[2].chat} = users

(***************************************************************************)
(* The buttons of the accounts and of the domains, under SpecButtons       *)
(***************************************************************************)
\* C25: a click of the delete button made for a stored domain d (the data
\* "del_" and the first 50 characters of d), while d is stored, removes d and
\* no other domain, whatever the file holds, also when it holds another
\* domain that starts with d or with the first 50 characters of d; and the
\* button of an account resolves to the account it was made for.
C25_ButtonHitsItsTarget ==
    [][/\ \A c \in Chats, i \in 1..Len(get_all_domains(store)) :
             inline_button_handler(c, Button("del_", get_all_domains(store)[i], 50))
                 => get_all_domains(store') = Without(get_all_domains(store), i)
       /\ \A i \in 1..Len(store) :
             /\ ByPrefix(AccountNames(store), Button("acc_", store[i].name, 50).arg, 50)
                    = Some(store[i].name)
             /\ ByPrefix(AccountNames(store), Button("remacc_", store[i].name, 40).arg, 40)
                    = Some(store[i].name)]_vars

(***************************************************************************)
(* Expiring soon and failed lookups, under SpecRunners                     *)
(***************************************************************************)
\* an expiring DomainInfo has no error and has its date and its days
Sound(info) ==
    info.is_expiring_soon =>
        ~info.error.some /\ info.expiry_date.some /\ info.days_left.some

\* the domains whose lookup failed, among these DomainInfo
FailedOf(infos) == {infos[i].domain : i \in {j \in 1..Len(infos) : infos[j].error.some}}

\* the domains a run has listed and the domains its messages list
ListedIn(entries) == {entries[i].domain : i \in 1..Len(entries)}
ListedInSent == UNION {ListedIn(sent[i].entries) : i \in 1..Len(sent)}

\* C26: in every DomainInfo that check returns, is_expiring_soon implies
\* that error is absent and that expiry_date and days_left are present; so a
\* domain whose lookup failed is never listed in the daily digest or in the
\* reply of show_expiring, and is not counted in the expiring count of
\* check_all_domains.
C26_FailedNeverExpiring ==
    /\ (ckOut.pc \in {"returned", "formatted"} /\ ~ckOut.raised) => Sound(ckOut.info)
    /\ \A i \in 1..Len(bResult) : Sound(bResult[i])
    /\ \A i \in 1..Len(dcInfos) : Sound(dcInfos[i])
    /\ \A i \in 1..Len(seInfos) : Sound(seInfos[i])
    /\ \A i \in 1..Len(caResults) : Sound(caResults[i].info)
    /\ FailedOf(dcInfos) \cap (ListedIn(dcTexts) \cup ListedInSent) = {}
    /\ FailedOf(seInfos) \cap (ListedIn(seTexts) \cup ListedInSent) = {}
    /\ caExpiring = Cardinality({i \in 1..Len(caResults) :
                                    /\ ~caResults[i].info.error.some
                                    /\ caResults[i].info.is_expiring_soon})

\* the daily job has sent a digest that lists the second domain only, after
\* the lookup of the first failed
C26_DigestWithoutFailed ==
    /\ dcPc = "returned" /\ Len(dcInfos) = 2
    /\ dcInfos[1].error.some /\ dcInfos[2].is_expiring_soon
    /\ sent # <<>> /\ ListedInSent = {dcInfos[2].domain}

(***************************************************************************)
(* The chunks of the reply of check_all_domains, under SpecAll             *)
(***************************************************************************)
\* the entries of these messages, in the order of the messages
RECURSIVE EntriesOf(_)
EntriesOf(msgs) ==
    IF msgs = <<>> THEN <<>> ELSE Head(msgs).entries \o EntriesOf(Tail(msgs))

\* C27: when the reply of check_all_domains is longer than 4000 characters,
\* the chunks sent are a split of the whole reply that loses nothing: every
\* rendered entry is in them once, whole and in the order of the domains, the
\* warning with the count of expiring domains is delivered when a domain is
\* expiring, and no chunk is empty, also when one rendered entry is longer
\* than the 3900 characters a chunk is packed to.
C27_ChunksLoseNothing ==
    /\ \A i \in OfKind("chunk") : sent[i].len > 0
    /\ (caPc = "returned" /\ OfKind("chunk") # {}) =>
          /\ EntriesOf(sent) = [i \in 1..Len(caResults) |->
                                    Entry(caResults[i].info, caResults[i].account)]
          /\ caExpiring > 0 =>
                \E i \in OfKind("chunk") : sent[i].len > JoinLen(sent[i].entries)

(***************************************************************************)
(* The pending input of a chat, under SpecBot                              *)
(***************************************************************************)
\* the states in which the bot waits for a text of the chat
Waiting ==
    {"WAITING_DOMAIN_ADD", "WAITING_DOMAIN_CHECK", "WAITING_DOMAIN_EDIT_NEW",
     "WAITING_DOMAIN_FIND"}

\* the step is the handling of a text of the chat
TextOf(c, text) ==
    \/ handle_message(c, text)
    \/ handle_domain_add(c, text)
    \/ handle_domain_check(c, text)
    \/ handle_domain_find(c, text)
    \/ handle_domain_edit_new(c, text)

====
